---- MODULE Spec2Model ----
(***************************************************************************)
(* LinuxConfig toolkit: the composite scorer (shared/lib/google_apis.py),  *)
(* the core article tracker (scripts/core-article-tracker/main.py) and the *)
(* attention finder (scripts/attention-finder/main.py), with the toolkit   *)
(* database tables both scripts share.                                     *)
(*                                                                         *)
(* Numbers.  Python floats are modelled as exact fixed-point integers:     *)
(*   an average search position p is the integer p * PosUnit,              *)
(*   a click-through rate c (a fraction 0..1) is the integer c * CtrUnit,  *)
(*   a composite score s (rounded to 2 decimals) is the integer s * 100,   *)
(*   an unrounded composite score is held in thousandths (MilliUnit).      *)
(* A Python dict is a function whose DOMAIN is the set of its keys; the    *)
(* empty dict is the function with the empty domain.                       *)
(***************************************************************************)
EXTENDS Integers, Sequences, FiniteSets, TLC

VARIABLES
    today,               \* the calendar date (date.today(), CURDATE())
    snapshots,           \* table core_articles_snapshots: <<date, page_path>> -> row
    alerts_table,        \* table core_articles_alerts: rows in insertion (id) order
    toolkit_runs,        \* table toolkit_runs: rows in insertion (id) order
    t_pc,                \* core tracker: position in main()
    t,                   \* core tracker: the CoreArticleTracker object and main()'s locals
    f_pc,                \* attention finder: position in main()
    f,                   \* attention finder: the AttentionFinder object and main()'s locals
    call                 \* a single call of a pure scoring function: arguments and result

vars == <<today, snapshots, alerts_table, toolkit_runs, t_pc, t, f_pc, f, call>>

-----------------------------------------------------------------------------
(* Python values and helpers *)

None == "None"

EmptyDict == [k \in {} |-> None]

\* dict.get(key, default)
Get(d, k, default) == IF k \in DOMAIN d THEN d[k] ELSE default

\* truthiness of a value that is None or a string
TruthyStr(v) == v # None /\ v # ""

\* truthiness of a number
TruthyNum(v) == v # 0

Max(a, b) == IF a >= b THEN a ELSE b

Min(a, b) == IF a <= b THEN a ELSE b

Abs(a) == IF a < 0 THEN 0 - a ELSE a

\* n / d rounded to the nearest integer, ties to even (round(), "%.Nf")
RoundHalfEven(n, d) ==
    LET q == n \div d
        r == n % d
    IN  IF 2 * r < d THEN q
        ELSE IF 2 * r > d THEN q + 1
        ELSE IF q % 2 = 0 THEN q ELSE q + 1

PosUnit == 10000

CtrUnit == 10000

MilliUnit == 1000

\* f"{position:.1f}": the position in tenths
Fmt1Pos(position) == RoundHalfEven(position * 10, PosUnit)

\* f"{old_pos:.0f}"
Fmt0Pos(position) == RoundHalfEven(position, PosUnit)

-----------------------------------------------------------------------------
(* shared/lib/google_apis.py *)

\* round(score, 2) of a score held in thousandths: the result in hundredths
Round2(milli) == RoundHalfEven(milli * 100, MilliUnit)

MutNoGuard_calculate_composite_score(ga_metrics, sc_metrics) ==
    LET pageviews == Get(ga_metrics, "pageviews", 0)
        sessions == Get(ga_metrics, "sessions", 0)
        clicks == Get(sc_metrics, "clicks", 0)
        impressions == Get(sc_metrics, "impressions", 0)
        position == Get(sc_metrics, "position", 100 * PosUnit)
    IN  Round2(pageviews * 400 + sessions * 200 + clicks * 300 + impressions * 10
               + ((10 * PosUnit - position) * 10) \div (PosUnit \div MilliUnit))

MutWeights_calculate_composite_score(ga_metrics, sc_metrics) ==
    LET pageviews == Get(ga_metrics, "pageviews", 0)
        sessions == Get(ga_metrics, "sessions", 0)
        clicks == Get(sc_metrics, "clicks", 0)
        impressions == Get(sc_metrics, "impressions", 0)
        position == Get(sc_metrics, "position", 100 * PosUnit)
        s4 == pageviews * 400 + sessions * 200 + clicks * 300 - impressions * 10
        s5 == IF position <= 10 * PosUnit
              THEN s4 + ((10 * PosUnit - position) * 10) \div (PosUnit \div MilliUnit)
              ELSE s4
    IN  Round2(s5)

calculate_composite_score(ga_metrics, sc_metrics) ==
    LET pageviews == Get(ga_metrics, "pageviews", 0)
        sessions == Get(ga_metrics, "sessions", 0)
        s1 == 0 + pageviews * 400                      \* score += pageviews * 0.4
        s2 == s1 + sessions * 200                      \* score += sessions * 0.2
        clicks == Get(sc_metrics, "clicks", 0)
        impressions == Get(sc_metrics, "impressions", 0)
        position == Get(sc_metrics, "position", 100 * PosUnit)
        s3 == s2 + clicks * 300                        \* score += clicks * 0.3
        s4 == s3 + impressions * 10                    \* score += impressions * 0.01
        s5 == IF position <= 10 * PosUnit              \* score += (10 - position) * 10
              THEN s4 + ((10 * PosUnit - position) * 10) \div (PosUnit \div MilliUnit)
              ELSE s4
    IN  Round2(s5)

-----------------------------------------------------------------------------
(* scripts/attention-finder/main.py: AttentionFinder.calculate_priority_score *)

\* score += delta; issues.append(issue); actions.append(action)
Flag(acc, delta, issue, action) ==
    [score |-> acc.score + delta,
     issues |-> Append(acc.issues, issue),
     actions |-> Append(acc.actions, action)]

\* score += delta
Bump(acc, delta) == [acc EXCEPT !.score = acc.score + delta]

MutEmptyIsPresent_FocusKeywordFactor(acc, wp_data) ==
    IF Get(wp_data, "focus_keyword", None) = None
    THEN Flag(acc, -20, <<"Missing focus keyword">>, <<"Add focus keyword in Yoast SEO">>)
    ELSE Bump(acc, 10)

\* 1. SEO fundamentals: the focus keyword
FocusKeywordFactor(acc, wp_data) ==
    IF ~TruthyStr(Get(wp_data, "focus_keyword", None))
    THEN Flag(acc, -20, <<"Missing focus keyword">>, <<"Add focus keyword in Yoast SEO">>)
    ELSE Bump(acc, 10)

\* 1. SEO fundamentals: the content age
ContentAgeFactor(acc, wp_data) ==
    LET days_old == Get(wp_data, "days_since_update", 0)
    IN  IF days_old > 365
        THEN Flag(acc, -15, <<"Not updated in %d days", days_old>>,
                  <<"Content refresh urgently needed - article over 1 year old">>)
        ELSE IF days_old > 180
        THEN Flag(acc, -10, <<"Not updated in %d days", days_old>>,
                  <<"Schedule content update - approaching 6 months">>)
        ELSE IF days_old < 180
        THEN Bump(acc, 5)
        ELSE acc

\* 2. Ranking opportunity
RankingOpportunityFactor(acc, article) ==
    LET position == Get(article, "position", 999 * PosUnit)
    IN  IF 4 * PosUnit <= position /\ position <= 10 * PosUnit
        THEN Flag(acc, 40, <<"Position %.1f - near page 1 top", Fmt1Pos(position)>>,
                  <<"Quick push to top 3 positions - optimize title and add internal links">>)
        ELSE IF 11 * PosUnit <= position /\ position <= 20 * PosUnit
        THEN Flag(acc, 25, <<"Position %.1f - page 2", Fmt1Pos(position)>>,
                  <<"Target page 1 - improve content depth and backlinks">>)
        ELSE IF 21 * PosUnit <= position /\ position <= 30 * PosUnit
        THEN Flag(acc, 10, <<"Position %.1f", Fmt1Pos(position)>>,
                  <<"Long-term optimization - expand content and target related keywords">>)
        ELSE acc

\* 3. Traffic potential; ctr = article.get('ctr', 0) * 100 is a percentage
TrafficPotentialFactor(acc, article) ==
    LET impressions == Get(article, "impressions", 0)
        ctr == Get(article, "ctr", 0) * 100
        ctrFmt == RoundHalfEven(ctr * 10, CtrUnit)          \* f"{ctr:.1f}"
    IN  IF impressions > 10000 /\ ctr < 2 * CtrUnit
        THEN Flag(acc, 30, <<"%d impressions but %.1f%% CTR", impressions, ctrFmt>>,
                  <<"Improve title and meta description - high visibility, low clicks">>)
        ELSE IF impressions > 5000 /\ ctr < 2 * CtrUnit
        THEN Flag(acc, 20, <<"%d impressions, %.1f%% CTR", impressions, ctrFmt>>,
                  <<"Optimize title for better CTR - good impressions, needs improvement">>)
        ELSE IF impressions > 5000
        THEN Bump(acc, 10)
        ELSE acc

MutUnlessTrafficKnown_WasTop30Factor(acc, historical_data) ==
    IF Get(historical_data, "was_top_30", FALSE) /\ Get(historical_data, "old_pageviews", 0) = 0
    THEN Flag(acc, 20, <<"Was in top 30, now dropped">>,
              <<"Priority recovery - proven winner that declined">>)
    ELSE acc

\* 4. Historical performance: was in the top 30
WasTop30Factor(acc, historical_data) ==
    IF Get(historical_data, "was_top_30", FALSE)
    THEN Flag(acc, 20, <<"Was in top 30, now dropped">>,
              <<"Priority recovery - proven winner that declined">>)
    ELSE acc

\* 4. Historical performance: the traffic change.
\* decline_pct = ((old_views - current_views) / old_views) * 100, compared exactly:
\* decline_pct > k  iff  (old_views - current_views) * 100 > k * old_views
TrafficChangeFactor(acc, article, historical_data) ==
    LET old_views == Get(historical_data, "old_pageviews", 0)
        current_views == Get(article, "pageviews", 0)
        num == (old_views - current_views) * 100
        pctFmt == RoundHalfEven(num, old_views)             \* f"{decline_pct:.0f}"
    IN  IF old_views > 0
        THEN IF num > 50 * old_views
             THEN Flag(acc, 15, <<"Traffic declined %.0f%%", pctFmt>>,
                       <<"Investigate decline - lost %.0f%% traffic", pctFmt>>)
             ELSE IF num > 20 * old_views
             THEN Flag(acc, 10, <<"Traffic declined %.0f%%", pctFmt>>,
                       <<"Monitor closely - showing traffic decline">>)
             ELSE IF num < (0 - 20) * old_views
             THEN Flag(acc, 5, <<"Traffic growing %.0f%%", RoundHalfEven(Abs(num), old_views)>>,
                       <<"Capitalize on growth - optimize to accelerate">>)
             ELSE acc
        ELSE acc

MutDeclineScored_PositionChangeFactor(acc, article, historical_data) ==
    LET position == Get(article, "position", 999 * PosUnit)
        old_pos == Get(historical_data, "old_position", 999 * PosUnit)
        pos_change == position - old_pos
    IN  IF old_pos < 999 * PosUnit /\ position < 999 * PosUnit
        THEN IF pos_change < (0 - 5) * PosUnit
             THEN Flag(acc, 10, <<"Position improving (was %.0f)", Fmt0Pos(old_pos)>>,
                       <<"Momentum detected - continue optimization">>)
             ELSE IF pos_change > 5 * PosUnit
             THEN Flag(acc, 10, <<"Position declining (was %.0f)", Fmt0Pos(old_pos)>>,
                       <<"Stop the decline - investigate ranking drop">>)
             ELSE acc
        ELSE acc

\* 4. Historical performance: the position change
PositionChangeFactor(acc, article, historical_data) ==
    LET position == Get(article, "position", 999 * PosUnit)
        old_pos == Get(historical_data, "old_position", 999 * PosUnit)
        pos_change == position - old_pos
    IN  IF old_pos < 999 * PosUnit /\ position < 999 * PosUnit
        THEN IF pos_change < (0 - 5) * PosUnit
             THEN Flag(acc, 10, <<"Position improving (was %.0f)", Fmt0Pos(old_pos)>>,
                       <<"Momentum detected - continue optimization">>)
             ELSE IF pos_change > 5 * PosUnit
             THEN Flag(acc, 0, <<"Position declining (was %.0f)", Fmt0Pos(old_pos)>>,
                       <<"Stop the decline - investigate ranking drop">>)
             ELSE acc
        ELSE acc

\* 4. Historical performance, skipped when historical_data is empty (falsy)
HistoricalFactor(acc, article, historical_data) ==
    IF DOMAIN historical_data # {}
    THEN PositionChangeFactor(
             TrafficChangeFactor(WasTop30Factor(acc, historical_data), article, historical_data),
             article, historical_data)
    ELSE acc

\* 5. Readability
ReadabilityFactor(acc, wp_data) ==
    LET readability == Get(wp_data, "readability_score", 0)
    IN  IF readability > 0 /\ readability < 60
        THEN Flag(acc, -5, <<"Low readability (%d)", readability>>,
                  <<"Improve readability - simplify content structure">>)
        ELSE acc

\* the state of score, issues, actions at line 223, before "return max(0, score), ..."
PriorityAccumulate(article, wp_data, historical_data) ==
    LET a0 == [score |-> 0, issues |-> <<>>, actions |-> <<>>]
        a1 == ContentAgeFactor(FocusKeywordFactor(a0, wp_data), wp_data)
        a2 == RankingOpportunityFactor(a1, article)
        a3 == TrafficPotentialFactor(a2, article)
        a4 == HistoricalFactor(a3, article, historical_data)
    IN  ReadabilityFactor(a4, wp_data)

MutNoClamp_calculate_priority_score(article, wp_data, historical_data) ==
    PriorityAccumulate(article, wp_data, historical_data)

MutOrder_calculate_priority_score(article, wp_data, historical_data) ==
    LET a0 == [score |-> 0, issues |-> <<>>, actions |-> <<>>]
        a1 == ReadabilityFactor(a0, wp_data)
        a2 == ContentAgeFactor(FocusKeywordFactor(a1, wp_data), wp_data)
        a3 == TrafficPotentialFactor(RankingOpportunityFactor(a2, article), article)
        acc == HistoricalFactor(a3, article, historical_data)
    IN  [acc EXCEPT !.score = Max(0, acc.score)]

\* return max(0, score), issues, actions
calculate_priority_score(article, wp_data, historical_data) ==
    LET acc == PriorityAccumulate(article, wp_data, historical_data)
    IN  [acc EXCEPT !.score = Max(0, acc.score)]

\* save_csv_report: the category of a priority score
Category(score) ==
    IF score >= 80 THEN "CRITICAL"
    ELSE IF score >= 50 THEN "HIGH"
    ELSE "MEDIUM"

-----------------------------------------------------------------------------
(* Page paths.  A page path is the sequence of its segments; the last segment is
   the post name.  PageNames lists the post names the inputs are drawn from. *)

PageNames ==
    <<"a", "b", "p03", "p04", "p05", "p06", "p07", "p08", "p09", "p10",
      "p11", "p12", "p13", "p14", "p15", "p16", "p17", "p18", "p19", "p20",
      "p21", "p22", "p23", "p24", "p25", "p26", "p27", "p28", "p29", "p30",
      "p31", "p32", "p33", "p34", "p35", "p36", "p37", "p38", "p39", "p40",
      "p41", "p42", "p43", "p44", "p45", "p46", "p47", "p48", "p49", "p50",
      "p51", "p52", "p53", "p54">>

\* '/<name>/' for the i-th post name
Path(i) == <<PageNames[i]>>

-----------------------------------------------------------------------------
(* shared/lib/wp.py *)

\* page_path.strip('/').split('/')[-1], a page path being the sequence of its
\* segments between the separators: '/docs/a/' is <<"docs", "a">>, '/' is <<>>
extract_post_name_from_path(page_path) ==
    IF Len(page_path) = 0 THEN "" ELSE page_path[Len(page_path)]

\* the non-empty post names of a list of page paths, in order
RECURSIVE PostNames(_)
PostNames(paths) ==
    IF paths = <<>> THEN <<>>
    ELSE LET post_name == extract_post_name_from_path(Head(paths))
         IN  (IF post_name # "" THEN <<post_name>> ELSE <<>>) \o PostNames(Tail(paths))

\* get_post_metadata(post_names) against the WordPress database wp_db (post_name ->
\* metadata): an empty list puts no filter on the query
get_post_metadata(post_names, wp_db) ==
    IF post_names = <<>> THEN wp_db
    ELSE LET names == {post_names[i] : i \in 1..Len(post_names)} \cap DOMAIN wp_db
         IN  [n \in names |-> wp_db[n]]

-----------------------------------------------------------------------------
(* scripts/core-article-tracker/main.py: ranking *)

\* the orders in which a loop can visit a set of page paths (the order of a Python
\* set of strings changes with the hash seed of the process): every order for a set
\* of up to MaxPermuted pages, the two opposite orders by path for a larger set
MaxPermuted == 3

SeqOf(S) == {q \in [1..Cardinality(S) -> S] : \A i, j \in 1..Cardinality(S) : i # j => q[i] # q[j]}

\* the position of a page path in a fixed enumeration of the paths (strings have no
\* order of their own): by last segment, paths below a directory after the others
PathIndex(path) ==
    (CHOOSE i \in 1..Len(PageNames) : PageNames[i] = path[Len(path)])
    + (IF Len(path) > 1 THEN Len(PageNames) ELSE 0)

RECURSIVE Ascending(_)
Ascending(S) ==
    IF S = {} THEN <<>>
    ELSE LET least == CHOOSE x \in S : \A y \in S : PathIndex(x) <= PathIndex(y)
         IN  <<least>> \o Ascending(S \ {least})

Reverse(q) == [i \in 1..Len(q) |-> q[Len(q) + 1 - i]]

IterationOrders(S) ==
    IF Cardinality(S) <= MaxPermuted THEN SeqOf(S) ELSE {Ascending(S), Reverse(Ascending(S))}

\* list.sort / sorted with reverse=True on the keys "keys": the indices of the items
\* in their sorted order; the sort is stable, items with equal keys keep their order
RECURSIVE InsertDescending(_, _, _)
InsertDescending(sorted, i, keys) ==
    IF sorted = <<>> THEN <<i>>
    ELSE IF keys[Head(sorted)] >= keys[i]
         THEN <<Head(sorted)>> \o InsertDescending(Tail(sorted), i, keys)
         ELSE <<i>> \o sorted

RECURSIVE SortedDescendingUpTo(_, _)
SortedDescendingUpTo(keys, n) ==
    IF n = 0 THEN <<>>
    ELSE InsertDescending(SortedDescendingUpTo(keys, n - 1), n, keys)

StableDescending(keys) == SortedDescendingUpTo(keys, Len(keys))

MutUnstable_SortByScore(items) ==
    LET reversed == Reverse(items)
        order == StableDescending([i \in 1..Len(items) |-> reversed[i][2].score])
    IN  [i \in 1..Len(items) |-> reversed[order[i]]]

\* sorted(combined.items(), key=lambda x: x[1]['score'], reverse=True)
SortByScore(items) ==
    LET order == StableDescending([i \in 1..Len(items) |-> items[i][2].score])
    IN  [i \in 1..Len(items) |-> items[order[i]]]

\* the value of combined[page]
CombinedEntry(page, ga_data, sc_data) ==
    LET ga == Get(ga_data, page, EmptyDict)
        sc == Get(sc_data, page, EmptyDict)
    IN  [page_path |-> page,
         score |-> calculate_composite_score(ga, sc),
         pageviews |-> Get(ga, "pageviews", 0),
         sessions |-> Get(ga, "sessions", 0),
         avg_duration |-> Get(ga, "avg_duration", 0),
         clicks |-> Get(sc, "clicks", 0),
         impressions |-> Get(sc, "impressions", 0),
         ctr |-> Get(sc, "ctr", 0),
         position |-> Get(sc, "position", 0)]

\* list(combined.items()) for the visiting order "order" of all_pages
CombinedItems(ga_data, sc_data, order) ==
    [i \in 1..Len(order) |-> <<order[i], CombinedEntry(order[i], ga_data, sc_data)>>]

combine_and_score(ga_data, sc_data, order) ==
    SortByScore(CombinedItems(ga_data, sc_data, order))

TOP_N == 30

\* the list "enriched"; wp_metadata is the result of get_post_metadata(post_names)
enrich_with_wordpress_data(sorted_articles, top_n, wp_metadata) ==
    LET top_articles == SubSeq(sorted_articles, 1, Min(top_n, Len(sorted_articles)))
    IN  [i \in 1..Len(top_articles) |->
            LET page_path == top_articles[i][1]
                metrics == top_articles[i][2]
                post_name == extract_post_name_from_path(page_path)
                wp_data == Get(wp_metadata, post_name, EmptyDict)
            IN  [rank |-> i,
                 page_path |-> page_path,
                 post_name |-> post_name,
                 score |-> metrics.score,
                 pageviews |-> metrics.pageviews,
                 sessions |-> metrics.sessions,
                 avg_duration |-> metrics.avg_duration,
                 clicks |-> metrics.clicks,
                 impressions |-> metrics.impressions,
                 ctr |-> metrics.ctr,
                 position |-> metrics.position,
                 days_since_update |-> Get(wp_data, "days_since_update", 0),
                 focus_keyword |-> Get(wp_data, "focus_keyword", None),
                 readability_score |-> Get(wp_data, "readability_score", 0)]]

\* the post names enrich_with_wordpress_data asks get_post_metadata for
EnrichPostNames(sorted_articles, top_n) ==
    LET top_articles == SubSeq(sorted_articles, 1, Min(top_n, Len(sorted_articles)))
    IN  PostNames([i \in 1..Len(top_articles) |-> top_articles[i][1]])

-----------------------------------------------------------------------------
(* scripts/core-article-tracker/main.py: alerts and persistence *)

\* the dates for which core_articles_snapshots holds a row
SnapshotDates(table) == {k[1] : k \in DOMAIN table}

MutSameDay_PreviousSnapshotDate(table, date) ==
    LET earlier == {d \in SnapshotDates(table) : d <= date}
    IN  {d \in earlier : \A e \in earlier : e <= d}

\* SELECT snapshot_date ... WHERE snapshot_date < date ORDER BY snapshot_date DESC
\* LIMIT 1: the set holding that date, or the empty set when there is no such row
PreviousSnapshotDate(table, date) ==
    LET earlier == {d \in SnapshotDates(table) : d < date}
    IN  {d \in earlier : \A e \in earlier : e <= d}

Alert(page_path, type, severity, value) ==
    [page_path |-> page_path, type |-> type, severity |-> severity, value |-> value]

MutCriticalAfter365_ContentAlerts(article) ==
    (IF ~TruthyStr(article.focus_keyword)
     THEN <<Alert(article.page_path, "missing_focus_keyword", "warning", <<"NULL">>)>>
     ELSE <<>>)
    \o
    (IF TruthyNum(article.days_since_update) /\ article.days_since_update >= 180
     THEN <<Alert(article.page_path, "content_outdated",
                  IF article.days_since_update > 365 THEN "critical" ELSE "warning",
                  <<"%d", article.days_since_update>>)>>
     ELSE <<>>)
    \o
    (IF TruthyNum(article.readability_score) /\ article.readability_score < 60
     THEN <<Alert(article.page_path, "low_readability", "info",
                  <<"%d", article.readability_score>>)>>
     ELSE <<>>)
    \o
    (IF TruthyNum(article.position) /\ article.position > 20 * PosUnit
     THEN <<Alert(article.page_path, "poor_ranking", "warning",
                  <<"%.1f", Fmt1Pos(article.position)>>)>>
     ELSE <<>>)

\* the alerts of the checks that need no history, for one article
ContentAlerts(article) ==
    (IF ~TruthyStr(article.focus_keyword)
     THEN <<Alert(article.page_path, "missing_focus_keyword", "warning", <<"NULL">>)>>
     ELSE <<>>)
    \o
    (IF TruthyNum(article.days_since_update) /\ article.days_since_update >= 180
     THEN <<Alert(article.page_path, "content_outdated",
                  IF article.days_since_update >= 365 THEN "critical" ELSE "warning",
                  <<"%d", article.days_since_update>>)>>
     ELSE <<>>)
    \o
    (IF TruthyNum(article.readability_score) /\ article.readability_score < 60
     THEN <<Alert(article.page_path, "low_readability", "info",
                  <<"%d", article.readability_score>>)>>
     ELSE <<>>)
    \o
    (IF TruthyNum(article.position) /\ article.position > 20 * PosUnit
     THEN <<Alert(article.page_path, "poor_ranking", "warning",
                  <<"%.1f", Fmt1Pos(article.position)>>)>>
     ELSE <<>>)

MutFrom20_ComparisonAlerts(article, prev) ==
    (IF TruthyNum(prev.rank_position) /\ article.rank > prev.rank_position + 5
     THEN <<Alert(article.page_path, "rank_declined", "warning",
                  <<"%d -> %d", prev.rank_position, article.rank>>)>>
     ELSE <<>>)
    \o
    (IF TruthyNum(prev.gsc_position) /\ TruthyNum(article.position)
        /\ article.position - prev.gsc_position > 5 * PosUnit
     THEN <<Alert(article.page_path, "position_declined", "warning",
                  <<"%.1f -> %.1f", Fmt1Pos(prev.gsc_position), Fmt1Pos(article.position)>>)>>
     ELSE <<>>)
    \o
    (IF TruthyNum(prev.ga_pageviews)
        /\ (article.pageviews - prev.ga_pageviews) * 100 <= (0 - 20) * prev.ga_pageviews
     THEN <<Alert(article.page_path, "traffic_declined", "warning",
                  <<"%.1f%%", RoundHalfEven((article.pageviews - prev.ga_pageviews) * 1000,
                                            prev.ga_pageviews)>>)>>
     ELSE <<>>)

\* the alerts of the comparison with prev, the article's row of the previous snapshot.
\* traffic_change = ((pageviews - prev) / prev) * 100 is compared exactly:
\* traffic_change < -20  iff  (pageviews - prev) * 100 < -20 * prev
ComparisonAlerts(article, prev) ==
    (IF TruthyNum(prev.rank_position) /\ article.rank > prev.rank_position + 5
     THEN <<Alert(article.page_path, "rank_declined", "warning",
                  <<"%d -> %d", prev.rank_position, article.rank>>)>>
     ELSE <<>>)
    \o
    (IF TruthyNum(prev.gsc_position) /\ TruthyNum(article.position)
        /\ article.position - prev.gsc_position > 5 * PosUnit
     THEN <<Alert(article.page_path, "position_declined", "warning",
                  <<"%.1f -> %.1f", Fmt1Pos(prev.gsc_position), Fmt1Pos(article.position)>>)>>
     ELSE <<>>)
    \o
    (IF TruthyNum(prev.ga_pageviews)
        /\ (article.pageviews - prev.ga_pageviews) * 100 < (0 - 20) * prev.ga_pageviews
     THEN <<Alert(article.page_path, "traffic_declined", "warning",
                  <<"%.1f%%", RoundHalfEven((article.pageviews - prev.ga_pageviews) * 1000,
                                            prev.ga_pageviews)>>)>>
     ELSE <<>>)

\* the alerts one pass of the loop of generate_alerts appends for an article
ArticleAlerts(article, table, snapshot_date) ==
    LET previous_snapshot == PreviousSnapshotDate(table, snapshot_date)
        has_history == previous_snapshot # {}
    IN  ContentAlerts(article)
        \o
        (IF has_history
         THEN LET key == <<CHOOSE d \in previous_snapshot : TRUE, article.page_path>>
              IN  IF key \in DOMAIN table THEN ComparisonAlerts(article, table[key]) ELSE <<>>
         ELSE <<>>)

\* self.alerts after generate_alerts, having been "alerts" before
RECURSIVE generate_alerts(_, _, _, _)
generate_alerts(alerts, articles_data, table, snapshot_date) ==
    IF articles_data = <<>> THEN alerts
    ELSE generate_alerts(alerts \o ArticleAlerts(Head(articles_data), table, snapshot_date),
                         Tail(articles_data), table, snapshot_date)

\* one INSERT ... ON DUPLICATE KEY UPDATE of save_snapshot; the unique key of
\* core_articles_snapshots is (snapshot_date, page_path)
UpsertSnapshotRow(table, snapshot_date, article) ==
    LET key == <<snapshot_date, article.page_path>>
        inserted == [ga_pageviews |-> article.pageviews,
                     ga_sessions |-> article.sessions,
                     gsc_clicks |-> article.clicks,
                     gsc_impressions |-> article.impressions,
                     gsc_position |-> article.position,
                     yoast_focus_keyword |-> article.focus_keyword,
                     composite_score |-> article.score,
                     rank_position |-> article.rank]
    IN  IF key \in DOMAIN table
        THEN [table EXCEPT ![key] = [@ EXCEPT !.ga_pageviews = article.pageviews,
                                              !.gsc_clicks = article.clicks,
                                              !.composite_score = article.score,
                                              !.rank_position = article.rank]]
        ELSE [k \in DOMAIN table \cup {key} |-> IF k = key THEN inserted ELSE table[k]]

\* core_articles_snapshots after save_snapshot has committed
RECURSIVE save_snapshot(_, _, _)
save_snapshot(table, snapshot_date, articles_data) ==
    IF articles_data = <<>> THEN table
    ELSE save_snapshot(UpsertSnapshotRow(table, snapshot_date, Head(articles_data)),
                       snapshot_date, Tail(articles_data))

AlertRow(snapshot_date, alert) ==
    [snapshot_date |-> snapshot_date, page_path |-> alert.page_path,
     alert_type |-> alert.type, alert_severity |-> alert.severity,
     metric_value |-> alert.value]

MutDedup_save_alerts(table, snapshot_date, alerts) ==
    LET rows == [i \in 1..Len(alerts) |-> AlertRow(snapshot_date, alerts[i])]
        IsNew(r) == \A j \in 1..Len(table) : table[j] # r
    IN  table \o SelectSeq(rows, IsNew)

\* core_articles_alerts after save_alerts has committed: one INSERT per alert
save_alerts(table, snapshot_date, alerts) ==
    table \o [i \in 1..Len(alerts) |-> AlertRow(snapshot_date, alerts[i])]

-----------------------------------------------------------------------------
(* scripts/attention-finder/main.py: exclusion, history, selection *)

TOP_30_LIMIT == 30

\* the results "SELECT page_path ... WHERE snapshot_date = (SELECT MAX(snapshot_date))
\* ORDER BY rank_position LIMIT 30" can have, as sets of page paths: rows of equal
\* rank_position come in either order, so the cut may fall between any of them
get_current_top_30(table) ==
    LET dates == SnapshotDates(table)
        latest == {k \in DOMAIN table : \A d \in dates : d <= k[1]}
        Rank(k) == table[k].rank_position
    IN  IF Cardinality(latest) <= TOP_30_LIMIT THEN {{k[2] : k \in latest}}
        ELSE LET cut == CHOOSE r \in {Rank(k) : k \in latest} :
                            /\ Cardinality({k \in latest : Rank(k) < r}) < TOP_30_LIMIT
                            /\ Cardinality({k \in latest : Rank(k) <= r}) >= TOP_30_LIMIT
                 sure == {k \in latest : Rank(k) < cut}
                 ties == {k \in latest : Rank(k) = cut}
             IN  {{k[2] : k \in sure \cup some} :
                     some \in {x \in SUBSET ties : Cardinality(x) = TOP_30_LIMIT - Cardinality(sure)}}

\* get_historical_data(page_paths) on date curdate (CURDATE())
get_historical_data(table, page_paths, curdate) ==
    LET previous == PreviousSnapshotDate(table, curdate)
        found == {path \in page_paths : \E d \in previous : <<d, path>> \in DOMAIN table}
    IN  [path \in found |->
            LET row == table[<<CHOOSE d \in previous : TRUE, path>>]
            IN  [old_pageviews |-> row.ga_pageviews,
                 old_position |-> row.gsc_position,
                 was_top_30 |-> IF TruthyNum(row.rank_position)
                                THEN row.rank_position <= 30 ELSE FALSE]]

\* article_data of one page, with the result of calculate_priority_score
ArticleData(page_path, ga_data, sc_data, wp_metadata, historical_data) ==
    LET post_name == extract_post_name_from_path(page_path)
        ga == Get(ga_data, page_path, EmptyDict)
        sc == Get(sc_data, page_path, EmptyDict)
        wp == Get(wp_metadata, post_name, EmptyDict)
        hist == Get(historical_data, page_path, EmptyDict)
        article_data == [page_path |-> page_path,
                         post_name |-> post_name,
                         pageviews |-> Get(ga, "pageviews", 0),
                         sessions |-> Get(ga, "sessions", 0),
                         clicks |-> Get(sc, "clicks", 0),
                         impressions |-> Get(sc, "impressions", 0),
                         ctr |-> Get(sc, "ctr", 0),
                         position |-> Get(sc, "position", 999 * PosUnit),
                         days_since_update |-> Get(wp, "days_since_update", 0),
                         focus_keyword |-> Get(wp, "focus_keyword", None),
                         readability_score |-> Get(wp, "readability_score", 0)]
        scored == calculate_priority_score(article_data, wp, hist)
    IN  [page_path |-> page_path,
         post_name |-> post_name,
         pageviews |-> article_data.pageviews,
         sessions |-> article_data.sessions,
         clicks |-> article_data.clicks,
         impressions |-> article_data.impressions,
         ctr |-> article_data.ctr,
         position |-> article_data.position,
         days_since_update |-> article_data.days_since_update,
         focus_keyword |-> article_data.focus_keyword,
         readability_score |-> article_data.readability_score,
         priority_score |-> scored.score,
         issues |-> scored.issues,
         actions |-> scored.actions]

MIN_PRIORITY == 20

ATTENTION_LIMIT == 50

MutNoExclusion_PagesToAnalyze(ga_data, sc_data, top_30_paths) ==
    DOMAIN ga_data \cup DOMAIN sc_data

\* pages_to_analyze = all_pages - self.top_30_paths
PagesToAnalyze(ga_data, sc_data, top_30_paths) ==
    (DOMAIN ga_data \cup DOMAIN sc_data) \ top_30_paths

MutThreshold_Retained(article_data) == article_data.priority_score >= MIN_PRIORITY

\* "if score > 20": the article is appended to analyzed
Retained(article_data) == article_data.priority_score > MIN_PRIORITY

\* the list "analyzed" before it is sorted: the retained articles in the order
\* "order" in which the loop visits pages_to_analyze
Analyzed(order, ga_data, sc_data, wp_metadata, historical_data) ==
    LET HasData(page_path) ==
            DOMAIN Get(ga_data, page_path, EmptyDict) # {}
            \/ DOMAIN Get(sc_data, page_path, EmptyDict) # {}
        all == [i \in 1..Len(order) |->
                   ArticleData(order[i], ga_data, sc_data, wp_metadata, historical_data)]
        Keep(article_data) == HasData(article_data.page_path) /\ Retained(article_data)
    IN  SelectSeq(all, Keep)

\* analyzed.sort(key=priority_score, reverse=True); analyzed[:50]
SortAndCut(analyzed) ==
    LET order == StableDescending([i \in 1..Len(analyzed) |-> analyzed[i].priority_score])
        sorted == [i \in 1..Len(analyzed) |-> analyzed[order[i]]]
    IN  SubSeq(sorted, 1, Min(ATTENTION_LIMIT, Len(sorted)))

\* self.attention_articles after analyze_articles; order is the order in which the
\* set pages_to_analyze is visited, wp_db the WordPress database, table the snapshots
analyze_articles(ga_data, sc_data, top_30_paths, order, wp_db, table, curdate) ==
    LET pages_to_analyze == PagesToAnalyze(ga_data, sc_data, top_30_paths)
        wp_metadata == get_post_metadata(PostNames(order), wp_db)
        historical_data == get_historical_data(table, pages_to_analyze, curdate)
    IN  SortAndCut(Analyzed(order, ga_data, sc_data, wp_metadata, historical_data))

-----------------------------------------------------------------------------
(* The state of both scripts before either has run, and the idle pure call *)

NoCall == [fn |-> "none"]

TrackerIdle == [snapshot_date |-> 0, run_id |-> 0, ga_data |-> EmptyDict, sc_data |-> EmptyDict,
                all_pages |-> <<>>, sorted_articles |-> <<>>, articles_data |-> <<>>,
                alerts |-> <<>>]

FinderIdle == [snapshot_date |-> 0, run_id |-> 0, top_30_paths |-> {}, ga_data |-> EmptyDict,
               sc_data |-> EmptyDict, wp_metadata |-> EmptyDict, attention_articles |-> <<>>]

InitTables ==
    /\ today = 1
    /\ snapshots = EmptyDict
    /\ alerts_table = <<>>
    /\ toolkit_runs = <<>>
    /\ t_pc = "idle"
    /\ t = TrackerIdle
    /\ f_pc = "idle"
    /\ f = FinderIdle

scripts == <<today, snapshots, alerts_table, toolkit_runs, t_pc, t, f_pc, f>>

-----------------------------------------------------------------------------
(* SpecPriority: calculate_priority_score applied to one drawn input *)

PositionInputs ==
    {3 * PosUnit, 4 * PosUnit, 8 * PosUnit, 10 * PosUnit, 105000, 11 * PosUnit,
     20 * PosUnit, 205000, 21 * PosUnit, 30 * PosUnit, 31 * PosUnit, 999 * PosUnit}

ArticleInputs ==
    [pageviews : {400, 500, 800, 1000, 1200, 12000},
     clicks : {50},
     impressions : {5000, 6000, 10000, 12000},
     ctr : {100, 200},
     position : PositionInputs]

WpDataInputs ==
    {EmptyDict} \cup
    [focus_keyword : {None, "", "linux"},
     days_since_update : {30, 180, 181, 365, 400},
     readability_score : {0, 55, 60}]

HistoricalInputs ==
    {EmptyDict} \cup
    [old_pageviews : {0, 1000},
     old_position : {0, 2 * PosUnit, 15 * PosUnit, 999 * PosUnit},
     was_top_30 : BOOLEAN]

InitPriority ==
    /\ InitTables
    /\ \E a \in ArticleInputs, w \in WpDataInputs, h \in HistoricalInputs :
          call = [fn |-> "calculate_priority_score", article |-> a, wp_data |-> w,
                  historical_data |-> h, returned |-> FALSE,
                  result |-> [score |-> 0, issues |-> <<>>, actions |-> <<>>]]

CallPriorityScore ==
    /\ call.fn = "calculate_priority_score"
    /\ ~call.returned
    /\ call' = [call EXCEPT !.returned = TRUE,
                            !.result = calculate_priority_score(call.article, call.wp_data,
                                                                call.historical_data)]
    /\ UNCHANGED scripts

NextPriority == CallPriorityScore

SpecPriority == InitPriority /\ [][NextPriority]_vars

-----------------------------------------------------------------------------
(* SpecComposite: calculate_composite_score applied to one drawn input *)

GaMetricsInputs ==
    {EmptyDict} \cup
    [pageviews : {0, 1, 1000}, sessions : {0, 1, 800}, avg_duration : {60}]

ScPositionInputs ==
    {0, 1 * PosUnit, 82343, 10 * PosUnit, 100001, 105000, 25 * PosUnit, 999 * PosUnit}

ScMetricsInputs ==
    {EmptyDict} \cup
    [clicks : {0, 1, 50}, impressions : {0, 1, 12000}, ctr : {100}, position : ScPositionInputs]
    \cup [clicks : {0, 1, 50}, impressions : {0, 1, 12000}]

InitComposite ==
    /\ InitTables
    /\ \E g \in GaMetricsInputs, s \in ScMetricsInputs :
          call = [fn |-> "calculate_composite_score", ga_metrics |-> g, sc_metrics |-> s,
                  returned |-> FALSE, result |-> 0]

CallCompositeScore ==
    /\ call.fn = "calculate_composite_score"
    /\ ~call.returned
    /\ call' = [call EXCEPT !.returned = TRUE,
                            !.result = calculate_composite_score(call.ga_metrics, call.sc_metrics)]
    /\ UNCHANGED scripts

NextComposite == CallCompositeScore

SpecComposite == InitComposite /\ [][NextComposite]_vars

-----------------------------------------------------------------------------
(* The two scripts as processes.  A script run is one process: main() builds the
   object, runs the steps in order and exits.  The runs of the two cron scripts
   do not overlap, and the date changes between runs. *)

MaxTrackerRuns == 2

MaxDate == 2

RunsOf(script) == Cardinality({i \in 1..Len(toolkit_runs) : toolkit_runs[i].script_name = script})

\* INSERT INTO toolkit_runs (script_name, status, run_date) VALUES (script, 'started', NOW())
StartedRow(script) ==
    [script_name |-> script, status |-> "started", run_date |-> today,
     records_processed |-> 0, alerts_generated |-> 0]

\* The scripts compare dates and never subtract them, so days on which no script
\* ran are left out: the date moves on after a day with a run
AdvanceDay ==
    /\ today < MaxDate
    /\ t_pc = "idle" /\ f_pc = "idle"
    /\ \E i \in 1..Len(toolkit_runs) : toolkit_runs[i].run_date = today
    /\ today' = today + 1
    /\ UNCHANGED <<snapshots, alerts_table, toolkit_runs, t_pc, t, f_pc, f, call>>

(* core-article-tracker: main() *)

\* complete_run(success): UPDATE toolkit_runs SET status, records_processed,
\* alerts_generated WHERE id = run_id; the process ends
TrackerCompleteRun(success) ==
    /\ toolkit_runs' = [toolkit_runs EXCEPT ![t.run_id] =
                           [@ EXCEPT !.status = IF success THEN "completed" ELSE "failed",
                                     !.records_processed = Len(t.articles_data),
                                     !.alerts_generated = Len(t.alerts)]]
    /\ t_pc' = "idle"
    /\ t' = TrackerIdle

\* tracker = CoreArticleTracker(); tracker.start_run()
TrackerStart ==
    /\ t_pc = "idle" /\ f_pc = "idle"
    /\ RunsOf("core-article-tracker") < MaxTrackerRuns
    /\ toolkit_runs' = Append(toolkit_runs, StartedRow("core-article-tracker"))
    /\ t' = [TrackerIdle EXCEPT !.snapshot_date = today, !.run_id = Len(toolkit_runs) + 1]
    /\ t_pc' = "fetch"
    /\ UNCHANGED <<today, snapshots, alerts_table, f_pc, f, call>>

\* fetch_google_data(), the Google APIs answering with one of the datasets, and the
\* check "if not ga_data and not sc_data" that ends the run as failed
TrackerFetch(datasets) ==
    /\ t_pc = "fetch"
    /\ \E d \in datasets :
          IF DOMAIN d.ga = {} /\ DOMAIN d.sc = {}
          THEN TrackerCompleteRun(FALSE)
          ELSE /\ t' = [t EXCEPT !.ga_data = d.ga, !.sc_data = d.sc]
               /\ t_pc' = "combine"
               /\ UNCHANGED toolkit_runs
    /\ UNCHANGED <<today, snapshots, alerts_table, f_pc, f, call>>

\* sorted_articles = tracker.combine_and_score(ga_data, sc_data); all_pages keeps
\* the order in which the loop visited the set all_pages
TrackerCombineAndScore ==
    /\ t_pc = "combine"
    /\ \E order \in IterationOrders(DOMAIN t.ga_data \cup DOMAIN t.sc_data) :
          t' = [t EXCEPT !.all_pages = order,
                         !.sorted_articles = combine_and_score(t.ga_data, t.sc_data, order)]
    /\ t_pc' = "enrich"
    /\ UNCHANGED <<today, snapshots, alerts_table, toolkit_runs, f_pc, f, call>>

\* tracker.enrich_with_wordpress_data(sorted_articles, top_n=30), the WordPress
\* database being one of wp_dbs
TrackerEnrich(wp_dbs) ==
    /\ t_pc = "enrich"
    /\ \E wp_db \in wp_dbs :
          t' = [t EXCEPT !.articles_data =
                   enrich_with_wordpress_data(
                       t.sorted_articles, TOP_N,
                       get_post_metadata(EnrichPostNames(t.sorted_articles, TOP_N), wp_db))]
    /\ t_pc' = "alerts"
    /\ UNCHANGED <<today, snapshots, alerts_table, toolkit_runs, f_pc, f, call>>

\* tracker.generate_alerts()
TrackerGenerateAlerts ==
    /\ t_pc = "alerts"
    /\ t' = [t EXCEPT !.alerts = generate_alerts(t.alerts, t.articles_data, snapshots,
                                                 t.snapshot_date)]
    /\ t_pc' = "save_snapshot"
    /\ UNCHANGED <<today, snapshots, alerts_table, toolkit_runs, f_pc, f, call>>

\* tracker.save_snapshot(): all rows are committed when the connection block ends
TrackerSaveSnapshot ==
    /\ t_pc = "save_snapshot"
    /\ snapshots' = save_snapshot(snapshots, t.snapshot_date, t.articles_data)
    /\ t_pc' = "save_alerts"
    /\ UNCHANGED <<today, alerts_table, toolkit_runs, t, f_pc, f, call>>

\* tracker.save_alerts(): returns at once when there are no alerts
TrackerSaveAlerts ==
    /\ t_pc = "save_alerts"
    /\ alerts_table' = IF t.alerts = <<>> THEN alerts_table
                       ELSE save_alerts(alerts_table, t.snapshot_date, t.alerts)
    /\ t_pc' = "reports"
    /\ UNCHANGED <<today, snapshots, toolkit_runs, t, f_pc, f, call>>

\* tracker.generate_reports(); tracker.complete_run(success=True)
TrackerReportAndComplete ==
    /\ t_pc = "reports"
    /\ TrackerCompleteRun(TRUE)
    /\ UNCHANGED <<today, snapshots, alerts_table, f_pc, f, call>>

\* an exception in a step that talks to an API, a database or the file system: the
\* step's own transaction is rolled back, main() calls complete_run(success=False)
\* (Spec, SpecRank and SpecSelect follow the runs in which no step raises; SpecFail
\* follows all)
TrackerFail ==
    /\ t_pc \in {"fetch", "enrich", "alerts", "save_snapshot", "save_alerts", "reports"}
    /\ TrackerCompleteRun(FALSE)
    /\ UNCHANGED <<today, snapshots, alerts_table, f_pc, f, call>>

(* attention-finder: main() *)

\* complete_run(success): UPDATE toolkit_runs SET status, records_processed
FinderCompleteRun(success) ==
    /\ toolkit_runs' = [toolkit_runs EXCEPT ![f.run_id] =
                           [@ EXCEPT !.status = IF success THEN "completed" ELSE "failed",
                                     !.records_processed = Len(f.attention_articles)]]
    /\ f_pc' = "idle"
    /\ f' = FinderIdle

\* finder = AttentionFinder(); finder.start_run().  The attention finder writes to
\* toolkit_runs only, which no script reads: one run of it, started at any point
\* between the tracker's runs, shows what any of its runs can see
FinderStart ==
    /\ t_pc = "idle" /\ f_pc = "idle"
    /\ RunsOf("attention-finder") = 0
    /\ toolkit_runs' = Append(toolkit_runs, StartedRow("attention-finder"))
    /\ f' = [FinderIdle EXCEPT !.snapshot_date = today, !.run_id = Len(toolkit_runs) + 1]
    /\ f_pc' = "top30"
    /\ UNCHANGED <<today, snapshots, alerts_table, t_pc, t, call>>

\* finder.get_current_top_30()
FinderGetCurrentTop30 ==
    /\ f_pc = "top30"
    /\ \E paths \in get_current_top_30(snapshots) : f' = [f EXCEPT !.top_30_paths = paths]
    /\ f_pc' = "fetch"
    /\ UNCHANGED <<today, snapshots, alerts_table, toolkit_runs, t_pc, t, call>>

\* fetch_all_articles() and the check "if not ga_data and not sc_data"
FinderFetch(datasets) ==
    /\ f_pc = "fetch"
    /\ \E d \in datasets :
          IF DOMAIN d.ga = {} /\ DOMAIN d.sc = {}
          THEN FinderCompleteRun(FALSE)
          ELSE /\ f' = [f EXCEPT !.ga_data = d.ga, !.sc_data = d.sc]
               /\ f_pc' = "analyze"
               /\ UNCHANGED toolkit_runs
    /\ UNCHANGED <<today, snapshots, alerts_table, t_pc, t, call>>

\* finder.analyze_articles(ga_data, sc_data), the WordPress database being one of
\* wp_dbs; wp_metadata keeps what get_post_metadata returned
FinderAnalyze(wp_dbs) ==
    /\ f_pc = "analyze"
    /\ \E wp_db \in wp_dbs,
          order \in IterationOrders(PagesToAnalyze(f.ga_data, f.sc_data, f.top_30_paths)) :
          f' = [f EXCEPT !.wp_metadata = get_post_metadata(PostNames(order), wp_db),
                         !.attention_articles =
                             analyze_articles(f.ga_data, f.sc_data, f.top_30_paths, order, wp_db,
                                              snapshots, today)]
    /\ f_pc' = "report"
    /\ UNCHANGED <<today, snapshots, alerts_table, toolkit_runs, t_pc, t, call>>

\* finder.generate_report(); finder.complete_run(success=True)
FinderReportAndComplete ==
    /\ f_pc = "report"
    /\ FinderCompleteRun(TRUE)
    /\ UNCHANGED <<today, snapshots, alerts_table, t_pc, t, call>>

\* an exception in a step of the attention finder
FinderFail ==
    /\ f_pc \in {"top30", "fetch", "analyze", "report"}
    /\ FinderCompleteRun(FALSE)
    /\ UNCHANGED <<today, snapshots, alerts_table, t_pc, t, call>>

-----------------------------------------------------------------------------
(* Spec: runs of both scripts against the shared tables *)

GaHigh == [pageviews |-> 1000, sessions |-> 800, avg_duration |-> 60]

GaLow == [pageviews |-> 400, sessions |-> 300, avg_duration |-> 45]

GaFaded == [pageviews |-> 150, sessions |-> 100, avg_duration |-> 30]

GaTop == [pageviews |-> 5000, sessions |-> 4000, avg_duration |-> 90]

ScNearTop == [clicks |-> 50, impressions |-> 12000, ctr |-> 100, position |-> 8 * PosUnit]

ScPage2 == [clicks |-> 20, impressions |-> 6000, ctr |-> 300, position |-> 15 * PosUnit]

ScPage3 == [clicks |-> 5, impressions |-> 6000, ctr |-> 300, position |-> 25 * PosUnit]

PageA == Path(1)

PageB == Path(2)

PageDocsA == <<"docs", "a">>

\* a dict from its items
Dict(items) == [k \in {x[1] : x \in items} |-> (CHOOSE x \in items : x[1] = k)[2]]

NoData == [ga |-> EmptyDict, sc |-> EmptyDict]

\* /a/ in both sources, /b/ in Analytics only, /docs/a/ in Search Console only
Mixed ==
    [ga |-> Dict({<<PageA, GaHigh>>, <<PageB, GaLow>>}),
     sc |-> Dict({<<PageA, ScNearTop>>, <<PageDocsA, ScPage2>>})]

\* six pages with more traffic than /a/, which has lost traffic and position
Crowded ==
    [ga |-> Dict({<<Path(i), GaTop>> : i \in 3..8} \cup {<<PageA, GaLow>>}),
     sc |-> Dict({<<PageA, ScPage3>>})]

\* /a/ and /b/ with less traffic and on page 3, and a page no tracker run has seen
Declined ==
    [ga |-> Dict({<<PageA, GaLow>>, <<PageB, GaFaded>>, <<Path(9), GaLow>>}),
     sc |-> Dict({<<PageA, ScPage3>>, <<PageB, ScPage3>>, <<Path(9), ScNearTop>>})]

TrackerDatasets == {NoData, Mixed, Crowded}

FinderDatasets == {NoData, Mixed, Declined}

WpTended ==
    Dict({<<"a", [days_since_update |-> 30, focus_keyword |-> "linux", readability_score |-> 70]>>,
          <<"b", [days_since_update |-> 400, focus_keyword |-> None, readability_score |-> 55]>>})

WpNeglected ==
    Dict({<<"a", [days_since_update |-> 200, focus_keyword |-> "", readability_score |-> 0]>>})

RunWpDatabases == {WpTended, WpNeglected}

Init == InitTables /\ call = NoCall

Next ==
    \/ AdvanceDay
    \/ TrackerStart
    \/ TrackerFetch(TrackerDatasets)
    \/ TrackerCombineAndScore
    \/ TrackerEnrich(RunWpDatabases)
    \/ TrackerGenerateAlerts
    \/ TrackerSaveSnapshot
    \/ TrackerSaveAlerts
    \/ TrackerReportAndComplete
    \/ FinderStart
    \/ FinderGetCurrentTop30
    \/ FinderFetch(FinderDatasets)
    \/ FinderAnalyze(RunWpDatabases)
    \/ FinderReportAndComplete

Spec == Init /\ [][Next]_vars

-----------------------------------------------------------------------------
(* SpecFail: the runs of Spec, and those in which a step raises *)

NextFail ==
    \/ AdvanceDay
    \/ TrackerStart
    \/ TrackerFetch(TrackerDatasets)
    \/ TrackerCombineAndScore
    \/ TrackerEnrich(RunWpDatabases)
    \/ TrackerGenerateAlerts
    \/ TrackerSaveSnapshot
    \/ TrackerSaveAlerts
    \/ TrackerReportAndComplete
    \/ TrackerFail
    \/ FinderStart
    \/ FinderGetCurrentTop30
    \/ FinderFetch(FinderDatasets)
    \/ FinderAnalyze(RunWpDatabases)
    \/ FinderReportAndComplete
    \/ FinderFail

SpecFail == Init /\ [][NextFail]_vars

-----------------------------------------------------------------------------
(* SpecAlerts: generate_alerts applied to one enriched article, on the second day,
   against a drawn content of core_articles_snapshots *)

AlertArticleInputs ==
    [rank : {1, 7},
     page_path : {<<"a">>},
     post_name : {"a"},
     score : {40000},
     pageviews : {0, 400, 799, 800, 801, 1000, 1200},
     sessions : {300},
     avg_duration : {45},
     clicks : {5},
     impressions : {6000},
     ctr : {300},
     position : {0, 8 * PosUnit, 25 * PosUnit},
     days_since_update : {0, 179, 180, 364, 365, 400},
     focus_keyword : {None, "linux"},
     readability_score : {70}]

\* a row of core_articles_snapshots with the given prior pageviews
SnapshotRowInput(ga_pageviews) ==
    [ga_pageviews |-> ga_pageviews, ga_sessions |-> 800, gsc_clicks |-> 50,
     gsc_impressions |-> 12000, gsc_position |-> 8 * PosUnit, yoast_focus_keyword |-> "linux",
     composite_score |-> 71500, rank_position |-> 1]

\* no snapshot; a snapshot of the day itself; a snapshot of the day before without
\* the page; a snapshot of the day before with the page, prior pageviews 0 or 1000
SnapshotTableInputs ==
    {EmptyDict,
     Dict({<< <<2, <<"a">>>>, SnapshotRowInput(1000) >>}),
     Dict({<< <<1, <<"b">>>>, SnapshotRowInput(1000) >>}),
     Dict({<< <<1, <<"a">>>>, SnapshotRowInput(0) >>}),
     Dict({<< <<1, <<"a">>>>, SnapshotRowInput(1000) >>})}

InitAlerts ==
    /\ today = 2
    /\ snapshots \in SnapshotTableInputs
    /\ alerts_table = <<>>
    /\ toolkit_runs = <<>>
    /\ t_pc = "idle"
    /\ t = TrackerIdle
    /\ f_pc = "idle"
    /\ f = FinderIdle
    /\ \E article \in AlertArticleInputs :
          call = [fn |-> "generate_alerts", articles_data |-> <<article>>,
                  snapshot_date |-> today, returned |-> FALSE, result |-> <<>>]

CallGenerateAlerts ==
    /\ call.fn = "generate_alerts"
    /\ ~call.returned
    /\ call' = [call EXCEPT !.returned = TRUE,
                            !.result = generate_alerts(<<>>, call.articles_data, snapshots,
                                                       call.snapshot_date)]
    /\ UNCHANGED scripts

NextAlerts == CallGenerateAlerts

SpecAlerts == InitAlerts /\ [][NextAlerts]_vars

-----------------------------------------------------------------------------
(* SpecRank: one tracker run up to the ranked and enriched list, over page sets
   larger than the top-30 window and with equal scores *)

RankSizes == {0, 2, 3, 29, 30, 31, 53}

RankGaKinds == {"rising", "level", "steps"}

RankScKinds == {"none", "shifted"}

\* pages 1..n in Analytics: pageviews rising with the page, equal, or in three steps
RankGa(n, kind) ==
    Dict({<<Path(i), [pageviews |-> IF kind = "rising" THEN 100 * i
                                    ELSE IF kind = "level" THEN 1000
                                    ELSE 100 * (1 + (i % 3)),
                      sessions |-> 80, avg_duration |-> 60]>> : i \in 1..n})

\* no page in Search Console, or pages 2..n+1, alternating between two records
RankSc(n, kind) ==
    IF kind = "none" THEN EmptyDict
    ELSE Dict({<<Path(i), IF i % 2 = 0 THEN ScNearTop ELSE ScPage3>> : i \in 2..(n + 1)})

RankDatasets ==
    {[ga |-> RankGa(n, g), sc |-> RankSc(n, s)] : n \in RankSizes, g \in RankGaKinds, s \in RankScKinds}

NextRank ==
    \/ TrackerStart
    \/ TrackerFetch(RankDatasets)
    \/ TrackerCombineAndScore
    \/ TrackerEnrich(RunWpDatabases)

SpecRank == Init /\ [][NextRank]_vars

-----------------------------------------------------------------------------
(* SpecSelect: one run of the attention finder over page sets with more than 50
   pages above the threshold and with pages at the threshold *)

SelectSizes == {0, 3, 6, 12, 24, 51, 54}

SelectScKinds == {"mixed", "strong"}

ScWeak == [clicks |-> 1, impressions |-> 100, ctr |-> 100, position |-> 25 * PosUnit]

\* the search record of page i of n: by i modulo 4, or all near the top except the
\* last two pages
SelectScRecord(n, kind, i) ==
    IF kind = "mixed"
    THEN (IF i % 4 = 0 THEN ScNearTop
          ELSE IF i % 4 = 1 THEN ScPage2
          ELSE IF i % 4 = 2 THEN ScPage3
          ELSE ScWeak)
    ELSE (IF i = n THEN ScWeak ELSE IF i = n - 1 THEN ScPage2 ELSE ScNearTop)

SelectDatasets ==
    {[ga |-> Dict({<<Path(i), GaLow>> : i \in 1..g}),
      sc |-> Dict({<<Path(i), SelectScRecord(n, kind, i)>> : i \in 1..n})] :
        n \in SelectSizes, kind \in SelectScKinds, g \in {0, 2}}

\* a WordPress database with a post for two pages of three: recently updated and
\* with a focus keyword, or with a focus keyword and updated 180 days ago
WpByThirds ==
    Dict({<<PageNames[i], [days_since_update |-> IF i % 3 = 0 THEN 30 ELSE 180,
                           focus_keyword |-> "linux",
                           readability_score |-> 70]>> :
             i \in {j \in 1..Len(PageNames) : j % 3 # 2}})

SelectWpDatabases == {WpByThirds, WpNeglected, EmptyDict}

NextSelect ==
    \/ FinderStart
    \/ FinderGetCurrentTop30
    \/ FinderFetch(SelectDatasets)
    \/ FinderAnalyze(SelectWpDatabases)
    \/ FinderReportAndComplete

SpecSelect == Init /\ [][NextSelect]_vars

-----------------------------------------------------------------------------
(* SpecTurnover: runs of both scripts in which the tracker's 30 highest pages are
   not the same in every run *)

\* 30 pages in Analytics, pages first..first+29, pageviews rising with the page
TurnoverGa(first) ==
    Dict({<<Path(i), [pageviews |-> 1000 + 10 * i, sessions |-> 800, avg_duration |-> 60]>> :
             i \in first..(first + 29)})

\* pages 1..30, and a fetch in which page 31 has come in and page 1 has gone
Early == [ga |-> TurnoverGa(1), sc |-> EmptyDict]

Late == [ga |-> TurnoverGa(2), sc |-> EmptyDict]

TurnoverTrackerDatasets == {NoData, Early, Late}

\* pages 1..3 with little traffic, on page 3 of the search results
Returning ==
    [ga |-> Dict({<<Path(i), GaFaded>> : i \in 1..3}),
     sc |-> Dict({<<Path(i), ScPage3>> : i \in 1..3})]

TurnoverFinderDatasets == {NoData, Returning}

NextTurnover ==
    \/ AdvanceDay
    \/ TrackerStart
    \/ TrackerFetch(TurnoverTrackerDatasets)
    \/ TrackerCombineAndScore
    \/ TrackerEnrich(RunWpDatabases)
    \/ TrackerGenerateAlerts
    \/ TrackerSaveSnapshot
    \/ TrackerSaveAlerts
    \/ TrackerReportAndComplete
    \/ FinderStart
    \/ FinderGetCurrentTop30
    \/ FinderFetch(TurnoverFinderDatasets)
    \/ FinderAnalyze(RunWpDatabases)
    \/ FinderReportAndComplete

SpecTurnover == Init /\ [][NextTurnover]_vars

-----------------------------------------------------------------------------
(* SpecSteps: generate_alerts and analyze_articles statement by statement.  call
   holds the locals of the running function and "trace", the queries it has sent
   and the articles it has handled, in order *)

QueryPreviousSnapshot == "SELECT snapshot_date FROM core_articles_snapshots"

QueryPrevData == "SELECT rank_position, gsc_position, ga_pageviews FROM core_articles_snapshots"

QueryPostMetadata == "SELECT ... FROM wp_posts LEFT JOIN wp_yoast_indexable"

QueryHistorical == "SELECT page_path, ga_pageviews, gsc_position, rank_position FROM core_articles_snapshots"

\* a pass of the loop of generate_alerts has ended
ArticleChecked == "article checked for alerts"

\* calculate_priority_score has returned for an article
ArticleScored == "article scored"

\* an enriched article of the tracker
StepArticle(page_path, rank, pageviews, days_since_update) ==
    [rank |-> rank, page_path |-> page_path,
     post_name |-> extract_post_name_from_path(page_path), score |-> 40000,
     pageviews |-> pageviews, sessions |-> 300, avg_duration |-> 45, clicks |-> 5,
     impressions |-> 6000, ctr |-> 300, position |-> 25 * PosUnit,
     days_since_update |-> days_since_update, focus_keyword |-> "linux",
     readability_score |-> 70]

\* self.articles_data with no, one or two articles
StepArticlesInputs ==
    {<<>>}
    \cup {<<StepArticle(PageA, 1, pv, days)>> : pv \in {400, 1000}, days \in {30, 400}}
    \cup {<<StepArticle(PageA, 1, pv, 30), StepArticle(PageB, 2, 400, days)>> :
             pv \in {400, 1000}, days \in {30, 400}}

\* no snapshot; a snapshot of the day itself; a snapshot of the day before with
\* one page or with both
StepTableInputs ==
    {EmptyDict,
     Dict({<< <<2, PageA>>, SnapshotRowInput(1000) >>}),
     Dict({<< <<1, PageA>>, SnapshotRowInput(1000) >>}),
     Dict({<< <<1, PageA>>, SnapshotRowInput(1000) >>, << <<1, PageB>>, SnapshotRowInput(1000) >>})}

InitSteps ==
    /\ today = 2
    /\ snapshots \in StepTableInputs
    /\ alerts_table = <<>>
    /\ toolkit_runs = <<>>
    /\ t_pc = "idle"
    /\ t = TrackerIdle
    /\ f_pc = "idle"
    /\ f = FinderIdle
    /\ \/ \E articles_data \in StepArticlesInputs :
             call = [fn |-> "generate_alerts", pc |-> "previous_snapshot",
                     articles_data |-> articles_data, snapshot_date |-> today,
                     previous_snapshot |-> {}, i |-> 1, alerts |-> <<>>, trace |-> <<>>]
       \/ \E d \in {Mixed, Declined}, top_30_paths \in {{}, {PageA}, {PageA, PageB, PageDocsA, Path(9)}},
             wp_db \in RunWpDatabases :
             \E order \in IterationOrders(PagesToAnalyze(d.ga, d.sc, top_30_paths)) :
                call = [fn |-> "analyze_articles", pc |-> "get_post_metadata",
                        ga_data |-> d.ga, sc_data |-> d.sc, top_30_paths |-> top_30_paths,
                        order |-> order, wp_db |-> wp_db, wp_metadata |-> EmptyDict,
                        historical_data |-> EmptyDict, i |-> 1, analyzed |-> <<>>,
                        attention_articles |-> <<>>, trace |-> <<>>]

\* generate_alerts: the query for the previous snapshot date; has_history
StepPreviousSnapshot ==
    /\ call.fn = "generate_alerts" /\ call.pc = "previous_snapshot"
    /\ call' = [call EXCEPT !.previous_snapshot = PreviousSnapshotDate(snapshots, call.snapshot_date),
                            !.trace = Append(@, QueryPreviousSnapshot),
                            !.pc = "article"]
    /\ UNCHANGED scripts

\* generate_alerts: the four checks of the loop body that need no history; without
\* history the pass ends here and the loop goes on to the next article
StepContentChecks ==
    /\ call.fn = "generate_alerts" /\ call.pc = "article"
    /\ call.i <= Len(call.articles_data)
    /\ LET has_history == call.previous_snapshot # {}
       IN  call' = [call EXCEPT !.alerts = @ \o ContentAlerts(call.articles_data[call.i]),
                                !.trace = IF has_history THEN @ ELSE Append(@, ArticleChecked),
                                !.pc = IF has_history THEN "prev_data" ELSE "article",
                                !.i = IF has_history THEN @ ELSE @ + 1]
    /\ UNCHANGED scripts

\* generate_alerts: "if has_history": the query for the article's previous row and
\* the comparison with it, which end the pass
StepPrevData ==
    /\ call.fn = "generate_alerts" /\ call.pc = "prev_data"
    /\ LET article == call.articles_data[call.i]
           key == <<CHOOSE d \in call.previous_snapshot : TRUE, article.page_path>>
       IN  call' = [call EXCEPT !.alerts = IF key \in DOMAIN snapshots
                                           THEN @ \o ComparisonAlerts(article, snapshots[key])
                                           ELSE @,
                                !.trace = @ \o <<QueryPrevData, ArticleChecked>>,
                                !.pc = "article",
                                !.i = @ + 1]
    /\ UNCHANGED scripts

\* generate_alerts: the loop has ended; return self.alerts
StepAlertsReturn ==
    /\ call.fn = "generate_alerts" /\ call.pc = "article"
    /\ call.i > Len(call.articles_data)
    /\ call' = [call EXCEPT !.pc = "returned"]
    /\ UNCHANGED scripts

\* analyze_articles: wp_metadata = get_post_metadata(post_names)
StepGetPostMetadata ==
    /\ call.fn = "analyze_articles" /\ call.pc = "get_post_metadata"
    /\ call' = [call EXCEPT !.wp_metadata = get_post_metadata(PostNames(call.order), call.wp_db),
                            !.trace = Append(@, QueryPostMetadata),
                            !.pc = "get_historical_data"]
    /\ UNCHANGED scripts

\* analyze_articles: historical_data = self.get_historical_data(list(pages_to_analyze)),
\* which returns {} without a query when there are no pages
StepGetHistoricalData ==
    /\ call.fn = "analyze_articles" /\ call.pc = "get_historical_data"
    /\ LET pages_to_analyze == PagesToAnalyze(call.ga_data, call.sc_data, call.top_30_paths)
       IN  call' = [call EXCEPT !.historical_data =
                                    get_historical_data(snapshots, pages_to_analyze, today),
                                !.trace = IF pages_to_analyze = {} THEN @
                                          ELSE Append(@, QueryHistorical),
                                !.pc = "article"]
    /\ UNCHANGED scripts

\* analyze_articles: one pass of the loop over pages_to_analyze
StepScoreArticle ==
    /\ call.fn = "analyze_articles" /\ call.pc = "article"
    /\ call.i <= Len(call.order)
    /\ LET page_path == call.order[call.i]
           has_data == \/ DOMAIN Get(call.ga_data, page_path, EmptyDict) # {}
                       \/ DOMAIN Get(call.sc_data, page_path, EmptyDict) # {}
           article_data == ArticleData(page_path, call.ga_data, call.sc_data,
                                       call.wp_metadata, call.historical_data)
       IN  call' = [call EXCEPT !.analyzed = IF has_data /\ Retained(article_data)
                                             THEN Append(@, article_data) ELSE @,
                                !.trace = IF has_data THEN Append(@, ArticleScored) ELSE @,
                                !.i = @ + 1]
    /\ UNCHANGED scripts

\* analyze_articles: sort, cut to 50 and return
StepSortAndReturn ==
    /\ call.fn = "analyze_articles" /\ call.pc = "article"
    /\ call.i > Len(call.order)
    /\ call' = [call EXCEPT !.attention_articles = SortAndCut(call.analyzed),
                            !.pc = "returned"]
    /\ UNCHANGED scripts

NextSteps ==
    \/ StepPreviousSnapshot
    \/ StepContentChecks
    \/ StepPrevData
    \/ StepAlertsReturn
    \/ StepGetPostMetadata
    \/ StepGetHistoricalData
    \/ StepScoreArticle
    \/ StepSortAndReturn

SpecSteps == InitSteps /\ [][NextSteps]_vars

-----------------------------------------------------------------------------
(* Claims about calculate_priority_score, checked under SpecPriority *)

PriorityReturned == call.fn = "calculate_priority_score" /\ call.returned

\* C1: for every combination of page metrics, content metadata and present or absent
\* historical data the returned priority score is never negative and never above 130.
C1_ScoreWithinZeroAnd130 ==
    PriorityReturned => call.result.score >= 0 /\ call.result.score <= 130

\* C1 witness: an input for which the score reaches the upper end, 130
C1_WitnessScore130 ==
    PriorityReturned /\ call.result.score = 130

ZeroAcc == [score |-> 0, issues |-> <<>>, actions |-> <<>>]

ExampleArticle ==
    [pageviews |-> 12000, clicks |-> 50, impressions |-> 12000, ctr |-> 100,
     position |-> 8 * PosUnit]

ExampleWpData == [focus_keyword |-> None, days_since_update |-> 400, readability_score |-> 55]

ExampleIssues ==
    << <<"Missing focus keyword">>,
       <<"Not updated in %d days", 400>>,
       <<"Position %.1f - near page 1 top", 80>>,
       <<"%d impressions but %.1f%% CTR", 12000, 10>>,
       <<"Low readability (%d)", 55>> >>

IsExampleCall ==
    /\ call.article = ExampleArticle
    /\ call.wp_data = ExampleWpData
    /\ call.historical_data = EmptyDict

\* C2: the score is max(0, sum of the deltas of the five factor groups), the issue and
\* action lists are the groups' strings concatenated in the order SEO fundamentals,
\* ranking opportunity, traffic potential, historical performance, readability; the
\* example input gives score 30, its five issues in that order, and category MEDIUM.
C2_ScoreIsClampedSumInGroupOrder ==
    PriorityReturned =>
        LET a == call.article
            w == call.wp_data
            h == call.historical_data
            g1 == ContentAgeFactor(FocusKeywordFactor(ZeroAcc, w), w)
            g2 == RankingOpportunityFactor(ZeroAcc, a)
            g3 == TrafficPotentialFactor(ZeroAcc, a)
            g4 == HistoricalFactor(ZeroAcc, a, h)
            g5 == ReadabilityFactor(ZeroAcc, w)
            sum == g1.score + g2.score + g3.score + g4.score + g5.score
        IN  /\ call.result.score = (IF sum > 0 THEN sum ELSE 0)
            /\ call.result.issues = g1.issues \o g2.issues \o g3.issues \o g4.issues \o g5.issues
            /\ call.result.actions =
                   g1.actions \o g2.actions \o g3.actions \o g4.actions \o g5.actions
            /\ IsExampleCall =>
                   /\ call.result.score = 30
                   /\ call.result.issues = ExampleIssues
                   /\ Len(call.result.actions) = 5
                   /\ Category(call.result.score) = "MEDIUM"

\* C2 witness: the example input has been scored
C2_WitnessExampleScored ==
    PriorityReturned /\ IsExampleCall /\ call.result.score = 30

-----------------------------------------------------------------------------
(* Claims about calculate_composite_score, checked under SpecComposite *)

CompositeReturned == call.fn = "calculate_composite_score" /\ call.returned

\* the claim's weighted sum, in thousandths, without the top-10 bonus
WeightedSumMilli(g, s) ==
    Get(g, "pageviews", 0) * 400 + Get(g, "sessions", 0) * 200
    + Get(s, "clicks", 0) * 300 + Get(s, "impressions", 0) * 10

RaisedAt(d1, d2, k) ==
    /\ DOMAIN d1 = DOMAIN d2
    /\ k \in DOMAIN d1
    /\ d2[k] > d1[k]
    /\ \A j \in DOMAIN d1 \ {k} : d2[j] = d1[j]

\* C7: for valid metrics the composite score is non-negative, strictly increases with
\* pageviews, does not decrease with sessions, clicks or impressions, and does not
\* increase with position, the other fields being fixed.
C7_CompositeMonotone ==
    CompositeReturned =>
        LET g == call.ga_metrics
            s == call.sc_metrics
        IN  /\ call.result >= 0
            /\ \A g2 \in GaMetricsInputs :
                  /\ RaisedAt(g, g2, "pageviews") => calculate_composite_score(g2, s) > call.result
                  /\ RaisedAt(g, g2, "sessions") => calculate_composite_score(g2, s) >= call.result
            /\ \A s2 \in ScMetricsInputs :
                  /\ RaisedAt(s, s2, "clicks") => calculate_composite_score(g, s2) >= call.result
                  /\ RaisedAt(s, s2, "impressions") => calculate_composite_score(g, s2) >= call.result
                  /\ RaisedAt(s, s2, "position") => calculate_composite_score(g, s2) <= call.result

\* C7 witness: a scored record for which more pageviews give a larger score and a worse
\* position gives a smaller one
C7_WitnessStrictChange ==
    /\ CompositeReturned
    /\ \E g2 \in GaMetricsInputs :
          /\ RaisedAt(call.ga_metrics, g2, "pageviews")
          /\ calculate_composite_score(g2, call.sc_metrics) > call.result
    /\ \E s2 \in ScMetricsInputs :
          /\ RaisedAt(call.sc_metrics, s2, "position")
          /\ calculate_composite_score(call.ga_metrics, s2) < call.result

-----------------------------------------------------------------------------
(* Claims about the runs of the two scripts, checked under Spec *)

\* the attention finder has analysed: attention_articles is the result
FinderAnalysed == f_pc = "report"

\* the tracker has ranked: sorted_articles is the result of combine_and_score
TrackerRanked == t_pc \in {"enrich", "alerts", "save_snapshot", "save_alerts", "reports"}

\* the tracker has generated its alerts
TrackerAlerted == t_pc \in {"save_snapshot", "save_alerts", "reports"}

FetchedPages(p) == DOMAIN p.ga_data \cup DOMAIN p.sc_data

\* C3: a page path in the exclusion set loaded by get_current_top_30, which is the
\* paths of the (up to 30) best-ranked rows of the most recent snapshot, never is the
\* page path of an article in attention_articles.
C3_Top30NeverInAttention ==
    /\ f_pc \in {"fetch", "analyze", "report"} => f.top_30_paths \in get_current_top_30(snapshots)
    /\ FinderAnalysed =>
          \A i \in 1..Len(f.attention_articles) :
              f.attention_articles[i].page_path \notin f.top_30_paths

\* the article the analysis would build for page_path with the WordPress database wp_db
WouldBe(page_path, wp_db) ==
    ArticleData(page_path, f.ga_data, f.sc_data,
                get_post_metadata(PostNames(<<page_path>>), wp_db),
                get_historical_data(snapshots, {page_path}, today))

\* C3 witness: the finder reports articles, and a fetched page with a priority score
\* above the threshold is left out because it is in the exclusion set
C3_WitnessExcludedDespiteScore ==
    /\ FinderAnalysed
    /\ f.attention_articles # <<>>
    /\ \E page_path \in f.top_30_paths \cap FetchedPages(f) :
          \A wp_db \in RunWpDatabases : Retained(WouldBe(page_path, wp_db))

\* C5: the merge yields one record per page of the union of both key sets, and a field
\* missing from a source takes its default: pageviews 0, sessions 0, avg_duration 0,
\* clicks 0, impressions 0, ctr 0, position 999, in the core tracker's record
\* (combine_and_score) and in the attention finder's.
C5_MergedRecordsTakeDocumentedDefaults ==
    /\ TrackerRanked =>
          /\ Len(t.sorted_articles) = Cardinality(FetchedPages(t))
          /\ {t.sorted_articles[i][1] : i \in 1..Len(t.sorted_articles)} = FetchedPages(t)
          /\ \A i \in 1..Len(t.sorted_articles) :
                LET page == t.sorted_articles[i][1]
                    record == t.sorted_articles[i][2]
                IN  /\ page \notin DOMAIN t.ga_data =>
                          record.pageviews = 0 /\ record.sessions = 0 /\ record.avg_duration = 0
                    /\ page \notin DOMAIN t.sc_data =>
                          /\ record.clicks = 0 /\ record.impressions = 0 /\ record.ctr = 0
                          /\ record.position = 999 * PosUnit
    /\ FinderAnalysed =>
          \A i \in 1..Len(f.attention_articles) :
              LET record == f.attention_articles[i]
              IN  /\ record.page_path \notin DOMAIN f.ga_data =>
                        record.pageviews = 0 /\ record.sessions = 0
                  /\ record.page_path \notin DOMAIN f.sc_data =>
                        /\ record.clicks = 0 /\ record.impressions = 0 /\ record.ctr = 0
                        /\ record.position = 999 * PosUnit

\* the page has a row in the snapshot of the latest date before "date"
HasPriorRow(page_path, date) ==
    \E key \in DOMAIN snapshots :
        /\ key[2] = page_path
        /\ key[1] < date
        /\ \A other \in DOMAIN snapshots : other[1] < date => other[1] <= key[1]

\* a snapshot of a date before "date" exists
HasPriorSnapshot(date) == \E key \in DOMAIN snapshots : key[1] < date

HistoryAlertTypes == {"rank_declined", "position_declined", "traffic_declined"}

\* the first element of every issue of the historical-performance group
HistoryIssueTexts ==
    {"Was in top 30, now dropped", "Traffic declined %.0f%%", "Traffic growing %.0f%%",
     "Position improving (was %.0f)", "Position declining (was %.0f)"}

\* the content metadata the analysis passed to calculate_priority_score, read back
\* from the article
WpDataOf(article) ==
    [focus_keyword |-> article.focus_keyword,
     days_since_update |-> article.days_since_update,
     readability_score |-> article.readability_score]

\* C9: for a page without a row in the prior snapshot (no prior snapshot at all, or
\* none with this page) generate_alerts emits no rank_declined, position_declined or
\* traffic_declined alert, neither in the run nor in the alerts table, and the
\* priority score, issues and actions are those of a scoring without historical data.
C9_NoHistoryNoHistoryCheck ==
    /\ TrackerAlerted =>
          \A i \in 1..Len(t.alerts) :
              t.alerts[i].type \in HistoryAlertTypes =>
                  HasPriorRow(t.alerts[i].page_path, t.snapshot_date)
    /\ \A i \in 1..Len(alerts_table) :
          alerts_table[i].alert_type \in HistoryAlertTypes =>
              HasPriorRow(alerts_table[i].page_path, alerts_table[i].snapshot_date)
    /\ FinderAnalysed =>
          \A i \in 1..Len(f.attention_articles) :
              LET article == f.attention_articles[i]
                  plain == calculate_priority_score(article, WpDataOf(article), EmptyDict)
              IN  ~HasPriorRow(article.page_path, today) =>
                      /\ \A j \in 1..Len(article.issues) :
                            article.issues[j][1] \notin HistoryIssueTexts
                      /\ article.priority_score = plain.score
                      /\ article.issues = plain.issues
                      /\ article.actions = plain.actions

\* C9 witness: the finder reports an article without a prior row next to one with an
\* issue of the historical group, and the alerts table holds a history alert next to
\* an alert for a page that had no row in the prior snapshot of its run
C9_WitnessPageWithoutPriorRow ==
    /\ FinderAnalysed
    /\ \E i \in 1..Len(f.attention_articles) :
          ~HasPriorRow(f.attention_articles[i].page_path, today)
    /\ \E i \in 1..Len(f.attention_articles) :
          \E j \in 1..Len(f.attention_articles[i].issues) :
              f.attention_articles[i].issues[j][1] \in HistoryIssueTexts
    /\ \E i \in 1..Len(alerts_table) : alerts_table[i].alert_type \in HistoryAlertTypes
    /\ \E i \in 1..Len(alerts_table) :
          /\ HasPriorSnapshot(alerts_table[i].snapshot_date)
          /\ ~HasPriorRow(alerts_table[i].page_path, alerts_table[i].snapshot_date)

IsPrefix(rows, later) == Len(rows) <= Len(later) /\ SubSeq(later, 1, Len(rows)) = rows

\* C10: every step leaves the alert rows already in core_articles_alerts as they are,
\* in place, and save_alerts adds one row per alert of the run, also when an equal
\* row is already there.
C10_AlertRowsAppendOnly ==
    [][/\ IsPrefix(alerts_table, alerts_table')
       /\ (t_pc = "save_alerts" /\ t_pc' = "reports") =>
              /\ Len(alerts_table') = Len(alerts_table) + Len(t.alerts)
              /\ \A i \in 1..Len(t.alerts) :
                    alerts_table'[Len(alerts_table) + i] = AlertRow(t.snapshot_date, t.alerts[i])
      ]_vars

\* C10 witness: a second run on the same snapshot date has added a row equal to one
\* of the first run
C10_WitnessRecurringAlertAddedAgain ==
    /\ t_pc = "reports"
    /\ \E i, j \in 1..Len(alerts_table) :
          /\ i < j
          /\ alerts_table[i] = alerts_table[j]
          /\ j > Len(alerts_table) - Len(t.alerts)
          /\ alerts_table[j].snapshot_date = t.snapshot_date

-----------------------------------------------------------------------------
(* Claims about the tracker's ranking, checked under SpecRank *)

\* the place of a page in the order in which combine_and_score inserted the pages
InsertionIndex(page) == CHOOSE k \in 1..Len(t.all_pages) : t.all_pages[k] = page

TrackerEnriched == t_pc \in {"alerts", "save_snapshot", "save_alerts", "reports"}

\* C8: sorted_articles holds every page once with its composite score, in descending
\* order of score, pages of equal score in their insertion order; articles_data is
\* the first k = min(30, number of pages) of them with ranks 1..k in that order, so
\* ranks are unique and contiguous and a smaller rank never has a smaller score.
C8_RankingDescendingStableRanked ==
    /\ TrackerRanked =>
          LET sorted == t.sorted_articles
              n == Len(sorted)
          IN  /\ n = Cardinality(FetchedPages(t))
              /\ {sorted[i][1] : i \in 1..n} = FetchedPages(t)
              /\ \A i \in 1..n :
                    sorted[i][2].score =
                        calculate_composite_score(Get(t.ga_data, sorted[i][1], EmptyDict),
                                                  Get(t.sc_data, sorted[i][1], EmptyDict))
              /\ \A i, j \in 1..n :
                    i < j =>
                        /\ sorted[i][2].score >= sorted[j][2].score
                        /\ sorted[i][2].score = sorted[j][2].score =>
                               InsertionIndex(sorted[i][1]) < InsertionIndex(sorted[j][1])
    /\ TrackerEnriched =>
          LET ranked == t.articles_data
              k == Len(ranked)
          IN  /\ k = (IF Len(t.sorted_articles) < 30 THEN Len(t.sorted_articles) ELSE 30)
              /\ \A i \in 1..k :
                    /\ ranked[i].rank = i
                    /\ ranked[i].page_path = t.sorted_articles[i][1]
                    /\ ranked[i].score = t.sorted_articles[i][2].score
              /\ {ranked[i].rank : i \in 1..k} = 1..k
              /\ \A i, j \in 1..k :
                    ranked[i].rank < ranked[j].rank => ranked[i].score >= ranked[j].score

\* C8 witness: more than 30 pages were ranked, the window holds pages of different
\* scores and two pages of equal score that were inserted against the order of their
\* paths, and a page of the same score as the last of the window is left out
C8_WitnessTiesAcrossTheWindow ==
    /\ TrackerEnriched
    /\ Len(t.sorted_articles) > 30
    /\ Len(t.articles_data) = 30
    /\ t.articles_data[1].score > t.articles_data[30].score
    /\ t.sorted_articles[31][2].score = t.articles_data[30].score
    /\ \E i, j \in 1..30 :
          /\ i < j
          /\ t.articles_data[i].score = t.articles_data[j].score
          /\ PathIndex(t.articles_data[i].page_path) > PathIndex(t.articles_data[j].page_path)

-----------------------------------------------------------------------------
(* Claims about the attention finder's selection, checked under SpecSelect *)

\* the priority score the analysis gives a page of this run
PriorityOf(page_path) ==
    ArticleData(page_path, f.ga_data, f.sc_data, f.wp_metadata,
                get_historical_data(snapshots, {page_path}, today)).priority_score

\* the analysed pages with a priority score above 20
AboveThreshold ==
    {page_path \in FetchedPages(f) \ f.top_30_paths : PriorityOf(page_path) > 20}

ReportedPages == {f.attention_articles[i].page_path : i \in 1..Len(f.attention_articles)}

\* C4: an analysed page is retained only with a priority score greater than 20 (20
\* is left out, 21 is kept); attention_articles is in descending order of score and
\* holds all retained pages if they are at most 50, else 50 of them, none of which
\* has a smaller score than a retained page that is left out.
C4_ThresholdSortedTop50 ==
    /\ ~Retained([priority_score |-> 20])
    /\ Retained([priority_score |-> 21])
    /\ FinderAnalysed =>
          LET reported == f.attention_articles
              k == Len(reported)
          IN  /\ ReportedPages \subseteq AboveThreshold
              /\ Cardinality(ReportedPages) = k
              /\ k = (IF Cardinality(AboveThreshold) < 50 THEN Cardinality(AboveThreshold) ELSE 50)
              /\ \A i \in 1..k : reported[i].priority_score = PriorityOf(reported[i].page_path)
              /\ \A i, j \in 1..k : i < j => reported[i].priority_score >= reported[j].priority_score
              /\ \A page_path \in AboveThreshold \ ReportedPages :
                    \A i \in 1..k : reported[i].priority_score >= PriorityOf(page_path)

\* C4 witness: more than 50 pages are above the threshold, the 50 reported have
\* different scores, a page with a smaller score than all of them is cut, and a page
\* with a score of exactly 20 was analysed and is not reported
C4_WitnessCutAndThreshold ==
    /\ FinderAnalysed
    /\ Cardinality(AboveThreshold) > 50
    /\ Len(f.attention_articles) = 50
    /\ f.attention_articles[1].priority_score > f.attention_articles[50].priority_score
    /\ \E page_path \in AboveThreshold \ ReportedPages :
          PriorityOf(page_path) < f.attention_articles[50].priority_score
    /\ \E page_path \in FetchedPages(f) \ ReportedPages : PriorityOf(page_path) = 20

-----------------------------------------------------------------------------
(* Claims about persisted snapshot rows, checked under Spec *)

\* C11: no step changes a snapshot row that is already in core_articles_snapshots:
\* every row keeps the pageviews, clicks, composite score and rank position it
\* was written with, also across two runs on the same date.
C11_SnapshotRowsNeverChange ==
    [][\A key \in DOMAIN snapshots :
          /\ key \in DOMAIN snapshots'
          /\ snapshots'[key].ga_pageviews = snapshots[key].ga_pageviews
          /\ snapshots'[key].gsc_clicks = snapshots[key].gsc_clicks
          /\ snapshots'[key].composite_score = snapshots[key].composite_score
          /\ snapshots'[key].rank_position = snapshots[key].rank_position
      ]_vars

-----------------------------------------------------------------------------
(* Claims about determinism, checked under Spec *)

\* C12: ranking and attention selection are functions of their inputs: the ordered,
\* scored list a run has produced is the one every run with the same traffic
\* mapping, search mapping, metadata, snapshots and date produces, whatever order
\* its loop visits the page set in, also when pages have equal scores.
C12_SameInputsSameResults ==
    /\ TrackerRanked =>
          \A order \in IterationOrders(FetchedPages(t)) :
              combine_and_score(t.ga_data, t.sc_data, order) = t.sorted_articles
    /\ FinderAnalysed =>
          \A order \in IterationOrders(PagesToAnalyze(f.ga_data, f.sc_data, f.top_30_paths)) :
              analyze_articles(f.ga_data, f.sc_data, f.top_30_paths, order, f.wp_metadata,
                               snapshots, today) = f.attention_articles

-----------------------------------------------------------------------------
(* Claims about the factors of calculate_priority_score, checked under SpecPriority *)

\* the groups of the call's input scored on their own
CallAge == ContentAgeFactor(ZeroAcc, call.wp_data)

CallRanking == RankingOpportunityFactor(ZeroAcc, call.article)

CallTraffic == TrafficPotentialFactor(ZeroAcc, call.article)

CallHistory == HistoricalFactor(ZeroAcc, call.article, call.historical_data)

CallReadability == ReadabilityFactor(ZeroAcc, call.wp_data)

Clamp(sum) == IF sum > 0 THEN sum ELSE 0

CallKeyword == Get(call.wp_data, "focus_keyword", None)

RankingIssueTexts ==
    {"Position %.1f - near page 1 top", "Position %.1f - page 2", "Position %.1f"}

\* the issues of the ranking-opportunity group among the returned issues
ReturnedRankingIssues ==
    {i \in 1..Len(call.result.issues) : call.result.issues[i][1] \in RankingIssueTexts}

\* C14: for every average position p with 4 <= p <= 30, fractional ones included,
\* exactly one ranking-opportunity bucket fires (+40 for 4-10, +25 for 11-20, +10 for
\* 21-30, with one issue and one action); for p < 4 and p > 30 none fires.
C14_ExactlyOneRankingBucket ==
    PriorityReturned =>
        LET p == call.article.position
        IN  IF 4 * PosUnit <= p /\ p <= 30 * PosUnit
            THEN /\ CallRanking.score \in {40, 25, 10}
                 /\ p <= 10 * PosUnit => CallRanking.score = 40
                 /\ (11 * PosUnit <= p /\ p <= 20 * PosUnit) => CallRanking.score = 25
                 /\ 21 * PosUnit <= p => CallRanking.score = 10
                 /\ Len(CallRanking.issues) = 1 /\ Len(CallRanking.actions) = 1
                 /\ Cardinality(ReturnedRankingIssues) = 1
            ELSE /\ CallRanking.score = 0
                 /\ CallRanking.issues = <<>> /\ CallRanking.actions = <<>>
                 /\ ReturnedRankingIssues = {}

\* C15: every days-since-update value is in exactly one content-age bucket: more than
\* 365 days gives -15 with an issue, 180 to 365 days inclusive gives -10 with the
\* schedule-update action, fewer than 180 days gives +5 with no issue.
C15_EveryAgeHasABucket ==
    PriorityReturned =>
        LET days_old == Get(call.wp_data, "days_since_update", 0)
        IN  /\ days_old > 365 =>
                  /\ CallAge.score = -15
                  /\ CallAge.issues = << <<"Not updated in %d days", days_old>> >>
                  /\ Len(CallAge.actions) = 1
            /\ (180 <= days_old /\ days_old <= 365) =>
                  /\ CallAge.score = -10
                  /\ CallAge.issues = << <<"Not updated in %d days", days_old>> >>
                  /\ CallAge.actions = << <<"Schedule content update - approaching 6 months">> >>
            /\ days_old < 180 =>
                  CallAge.score = 5 /\ CallAge.issues = <<>> /\ CallAge.actions = <<>>

TrafficIssueTexts == {"Traffic declined %.0f%%", "Traffic growing %.0f%%"}

\* the traffic-change part of the historical group, scored on its own
CallTrafficChange == TrafficChangeFactor(ZeroAcc, call.article, call.historical_data)

\* the issues of the traffic change among the returned issues
ReturnedTrafficIssues ==
    {i \in 1..Len(call.result.issues) : call.result.issues[i][1] \in TrafficIssueTexts}

\* the traffic-change buckets for prior pageviews old > 0 and current pageviews
\* current, a decline of exactly 20% being in the +10 bucket
TrafficBuckets(old, current) ==
    LET lost == (old - current) * 100                    \* decline in percent, times old
        delta == IF lost > 50 * old THEN 15
                 ELSE IF lost >= 20 * old THEN 10
                 ELSE IF lost < (0 - 20) * old THEN 5
                 ELSE 0
    IN  /\ CallTrafficChange.score = delta
        /\ Len(CallTrafficChange.issues) = (IF delta = 0 THEN 0 ELSE 1)
        /\ Len(CallTrafficChange.actions) = (IF delta = 0 THEN 0 ELSE 1)
        /\ Cardinality(ReturnedTrafficIssues) = (IF delta = 0 THEN 0 ELSE 1)
        /\ current = old => delta = 0 /\ ReturnedTrafficIssues = {}

HasPriorPageviews ==
    /\ PriorityReturned
    /\ DOMAIN call.historical_data # {}
    /\ call.historical_data["old_pageviews"] > 0

\* C16: with historical data and prior pageviews > 0 the traffic change adds +15 for
\* a decline of more than 50%, +10 for a decline of 20% to 50%, +5 for growth of more
\* than 20%, else nothing; at most one fires, and equal pageviews give nothing.
C16_TrafficBucketsFrom20 ==
    HasPriorPageviews =>
        TrafficBuckets(call.historical_data["old_pageviews"], call.article.pageviews)

-----------------------------------------------------------------------------
(* Claims about the finder's use of the snapshots, checked under Spec *)

\* the article the analysis of this run builds for a page
AnalysedArticle(page_path) ==
    ArticleData(page_path, f.ga_data, f.sc_data, f.wp_metadata,
                get_historical_data(snapshots, {page_path}, today))

\* the page has a row with a rank of 1 to 30 in the snapshot of the latest date
\* before today
WasInPriorTop30(page_path) ==
    \E key \in DOMAIN snapshots :
        /\ key[2] = page_path
        /\ key[1] < today
        /\ \A other \in DOMAIN snapshots : other[1] < today => other[1] <= key[1]
        /\ snapshots[key].rank_position >= 1
        /\ snapshots[key].rank_position <= 30

HasIssue(article, text) == \E i \in 1..Len(article.issues) : article.issues[i][1] = text

\* the historical data of the claim's example, and an article with 400 pageviews
ExampleHistory == [old_pageviews |-> 1000, old_position |-> 999 * PosUnit, was_top_30 |-> TRUE]

ExampleDeclined ==
    [pageviews |-> 400, clicks |-> 50, impressions |-> 5000, ctr |-> 200, position |-> 999 * PosUnit]

\* the score before clamping of a page of this run, and what it would be had the
\* page not been in the prior top 30
RawScore(page_path, was_top_30) ==
    LET history == get_historical_data(snapshots, {page_path}, today)
        article == AnalysedArticle(page_path)
    IN  PriorityAccumulate(article, WpDataOf(article),
                           IF page_path \in DOMAIN history
                           THEN [history[page_path] EXCEPT !.was_top_30 = was_top_30]
                           ELSE EmptyDict).score

-----------------------------------------------------------------------------
(* Further claims about the factors of calculate_priority_score, checked under
   SpecPriority *)

PositionIssueTexts == {"Position improving (was %.0f)", "Position declining (was %.0f)"}

\* the issues and actions of the position change among those returned
ReturnedPositionIssues ==
    {i \in 1..Len(call.result.issues) : call.result.issues[i][1] \in PositionIssueTexts}

ReturnedPositionActions ==
    {i \in 1..Len(call.result.actions) :
        call.result.actions[i][1] \in {"Momentum detected - continue optimization",
                                       "Stop the decline - investigate ranking drop"}}

\* the sum of all deltas but that of the position change
SumWithoutPositionChange ==
    FocusKeywordFactor(ZeroAcc, call.wp_data).score + CallAge.score + CallRanking.score
    + CallTraffic.score + WasTop30Factor(ZeroAcc, call.historical_data).score
    + CallTrafficChange.score + CallReadability.score

\* the call has historical data with a prior position, and the article a position
HasBothPositions ==
    /\ PriorityReturned
    /\ DOMAIN call.historical_data # {}
    /\ call.historical_data["old_position"] < 999 * PosUnit
    /\ call.article.position < 999 * PosUnit

\* C18: a position improved by more than 5 places against the prior position adds
\* +10 with one issue and one action; a position worsened by more than 5 places adds
\* one issue and one action and leaves the score unchanged; a change of 5 places or
\* fewer adds nothing.
C18_PositionChangeAsymmetric ==
    HasBothPositions =>
        LET change == call.article.position - call.historical_data["old_position"]
            improved == change < (0 - 5) * PosUnit
            worsened == change > 5 * PosUnit
            first == call.result.issues[CHOOSE i \in ReturnedPositionIssues : TRUE][1]
        IN  /\ call.result.score = Clamp(SumWithoutPositionChange + (IF improved THEN 10 ELSE 0))
            /\ Cardinality(ReturnedPositionIssues) = (IF improved \/ worsened THEN 1 ELSE 0)
            /\ Cardinality(ReturnedPositionActions) = (IF improved \/ worsened THEN 1 ELSE 0)
            /\ improved => first = "Position improving (was %.0f)"
            /\ worsened => first = "Position declining (was %.0f)"

\* C18 witness: a position that worsened by more than 5 places from a prior position
\* on page 2 is flagged, and the positive score is the sum of the other deltas
C18_WitnessDeclineFlaggedNotScored ==
    /\ HasBothPositions
    /\ call.historical_data["old_position"] = 15 * PosUnit
    /\ call.article.position = 21 * PosUnit
    /\ Cardinality(ReturnedPositionIssues) = 1
    /\ call.result.score > 0
    /\ call.result.score = SumWithoutPositionChange

-----------------------------------------------------------------------------
(* Claims about generate_alerts, checked under SpecAlerts *)

AlertsReturned == call.fn = "generate_alerts" /\ call.returned

\* the alerts of one type among those returned for the article
ReturnedAlerts(type) ==
    {i \in 1..Len(call.result) :
        /\ call.result[i].type = type
        /\ call.result[i].page_path = call.articles_data[1].page_path}

\* the rows of the article's page in the snapshot of the latest date before the run's
PriorRows ==
    {key \in DOMAIN snapshots :
        /\ key[2] = call.articles_data[1].page_path
        /\ key[1] < call.snapshot_date
        /\ \A other \in DOMAIN snapshots : other[1] < call.snapshot_date => other[1] <= key[1]}

\* C19: a traffic_declined alert, of severity warning, is emitted for an article
\* exactly when it has a prior snapshot row with pageviews > 0 and its pageviews are
\* more than 20% below them; none at exactly 20%, at 0% or on growth; never two.
C19_TrafficDeclinedIffBelow80Percent ==
    AlertsReturned =>
        LET current == call.articles_data[1].pageviews
            declined == \E key \in PriorRows :
                            /\ snapshots[key].ga_pageviews > 0
                            /\ current * 100 < 80 * snapshots[key].ga_pageviews
            found == ReturnedAlerts("traffic_declined")
        IN  /\ Cardinality(found) = (IF declined THEN 1 ELSE 0)
            /\ \A i \in found : call.result[i].severity = "warning"

\* C19 witness: pageviews 799 against 1000 in the prior snapshot row have raised the
\* alert
C19_WitnessJustBelow ==
    /\ AlertsReturned
    /\ call.articles_data[1].pageviews = 799
    /\ \E key \in PriorRows : snapshots[key].ga_pageviews = 1000
    /\ Cardinality(ReturnedAlerts("traffic_declined")) = 1

\* C20: exactly one content_outdated alert is emitted for an article whose
\* days-since-update is 180 or more, critical from 365 and warning from 180 to 364,
\* and none when it is below 180 or unknown (0).
C20_ContentOutdatedSeverity ==
    AlertsReturned =>
        LET days == call.articles_data[1].days_since_update
            found == ReturnedAlerts("content_outdated")
        IN  /\ Cardinality(found) = (IF days >= 180 THEN 1 ELSE 0)
            /\ \A i \in found :
                  call.result[i].severity = (IF days >= 365 THEN "critical" ELSE "warning")

\* C20 witness: an article updated exactly 365 days ago has a critical alert
C20_WitnessCriticalAt365 ==
    /\ AlertsReturned
    /\ call.articles_data[1].days_since_update = 365
    /\ \E i \in ReturnedAlerts("content_outdated") : call.result[i].severity = "critical"

-----------------------------------------------------------------------------
(* Claims about the order of queries and work, checked under SpecSteps *)

\* the queries for the historical snapshot and for content metadata
SupportingQueries == {QueryPreviousSnapshot, QueryPrevData, QueryPostMetadata, QueryHistorical}

\* C21: within a call of generate_alerts or analyze_articles, no query for the
\* historical snapshot or for content metadata is sent after the first article has
\* been scored or checked for alerts: the supporting data is fetched as one batch.
C21_NoQueryAfterFirstArticle ==
    \A i, j \in 1..Len(call.trace) :
        (i < j /\ call.trace[i] \in {ArticleChecked, ArticleScored})
            => call.trace[j] \notin SupportingQueries

-----------------------------------------------------------------------------
(* Claims about failed runs, checked under SpecFail *)

\* the rows of toolkit_runs of the core tracker dated d
TrackerRunsOn(d) ==
    {i \in 1..Len(toolkit_runs) :
        toolkit_runs[i].script_name = "core-article-tracker" /\ toolkit_runs[i].run_date = d}

\* every run of the core tracker on date d has ended as failed, and there is one
OnlyFailedRunsOn(d) ==
    /\ TrackerRunsOn(d) # {}
    /\ \A i \in TrackerRunsOn(d) : toolkit_runs[i].status = "failed"

SnapshotRowsOf(d) == {key \in DOMAIN snapshots : key[1] = d}

AlertRowsOf(d) == {i \in 1..Len(alerts_table) : alerts_table[i].snapshot_date = d}

\* C22: a run of the core tracker that ends as failed has committed none of its
\* snapshot rows and none of its alert rows: a date on which every run failed has no
\* row in either table, and between runs no date has alert rows without snapshot rows.
C22_FailedRunPersistsNothing ==
    \A d \in 1..MaxDate + 1 :
        /\ OnlyFailedRunsOn(d) => SnapshotRowsOf(d) = {} /\ AlertRowsOf(d) = {}
        /\ (t_pc = "idle" /\ AlertRowsOf(d) # {}) => SnapshotRowsOf(d) # {}

-----------------------------------------------------------------------------
(* Claims about the scored articles of the core tracker, checked under Spec *)

\* calculate_composite_score applied to the metrics stored with a score
RecomputedScore(pageviews, sessions, clicks, impressions, position) ==
    calculate_composite_score(
        [pageviews |-> pageviews, sessions |-> sessions],
        [clicks |-> clicks, impressions |-> impressions, position |-> position])

\* C23: the composite score stored in every article of articles_data, and in every
\* snapshot row, is calculate_composite_score of the pageviews, sessions, clicks,
\* impressions and position stored beside it, also for a page with traffic data
\* and no search data.
C23_StoredScoreMatchesStoredMetrics ==
    /\ TrackerEnriched =>
          \A i \in 1..Len(t.articles_data) :
              LET article == t.articles_data[i]
              IN  article.score = RecomputedScore(article.pageviews, article.sessions,
                                                  article.clicks, article.impressions,
                                                  article.position)
    /\ \A key \in DOMAIN snapshots :
          LET row == snapshots[key]
          IN  row.composite_score = RecomputedScore(row.ga_pageviews, row.ga_sessions,
                                                    row.gsc_clicks, row.gsc_impressions,
                                                    row.gsc_position)

-----------------------------------------------------------------------------
(* Claims about the snapshot the attention finder reads, checked under SpecTurnover *)

\* no row of core_articles_snapshots is dated on the day of the finder's run
NoSnapshotOfToday == \A key \in DOMAIN snapshots : key[1] # today

\* C24: in a run of the attention finder on a date without a snapshot, the
\* exclusion set and the historical baseline come from the same snapshot, the most
\* recent one: no analysed page has a historical row, no reported article carries an
\* issue of the historical group, and every reported score is the score of a
\* scoring without historical data.
C24_NoHistoryWithoutSnapshotOfToday ==
    (FinderAnalysed /\ NoSnapshotOfToday) =>
        /\ \A page_path \in FetchedPages(f) \ f.top_30_paths : ~HasPriorRow(page_path, today)
        /\ \A i \in 1..Len(f.attention_articles) :
              LET article == f.attention_articles[i]
              IN  /\ \A text \in HistoryIssueTexts : ~HasIssue(article, text)
                  /\ article.priority_score =
                         calculate_priority_score(article, WpDataOf(article), EmptyDict).score

====
